---- MODULE Spec2Model ----
(***************************************************************************)
(* Model of the detection engine's fallback pipeline: the per-model        *)
(* circuit breakers (circuit_breaker.go), the model registry               *)
(* (model_registry.go), the normalisation of the adapters' replies         *)
(* (LLMDetector) and the orchestrator FallbackPipeline with its            *)
(* operational surface (pipeline_with_fallback.go).                        *)
(*                                                                         *)
(* Durations and clock readings are counted in ticks.  The int64           *)
(* nanosecond width of time.Duration is not modelled: the product          *)
(* timeout * consecutiveFailures stays far below 2^63 for every run within *)
(* the bounds below.                                                       *)
(***************************************************************************)
EXTENDS Integers, Sequences, FiniteSets, TLC

(***************************************************************************)
(* Bounds                                                                  *)
(***************************************************************************)
NumProcs == 2          \* goroutines that call into the engine concurrently
MaxSerial == 1         \* failing Calls made one after the other in SpecCB
MaxCalls == 3          \* concurrent Calls started in one behaviour of SpecCB
MaxRequests == 2       \* requests started in one behaviour of Spec
MaxWarm == 3           \* failed requests served before a behaviour starts
MaxNow == 2            \* last clock reading in SpecCB
MaxLongTicks == 1      \* long clock steps in one behaviour of Spec
MaxThreshold == 2      \* largest failureThreshold / successThreshold tried
MaxBaseTimeout == 1    \* largest configured Timeout tried
MaxCapTimeout == 2     \* largest configured MaxTimeout tried
MaxRegistryOps == 2    \* registry operations in one behaviour of SpecReg
MaxResets == 1         \* breaker resets in one behaviour
MaxPriority == 3       \* largest priority UpdateModelPriority is given
MaxDecoded == 1        \* decoded variants Detect tests besides the text

Procs == 1..NumProcs

(***************************************************************************)
(* circuit_breaker.go                                                      *)
(***************************************************************************)
CircuitClosed == 0
CircuitOpen == 1
CircuitHalfOpen == 2

\* the zero time.Time a fresh breaker holds in lastFailureTime
ZeroTime == -1

ErrNil == "nil"
ErrCircuitOpen == "circuit breaker is open"
ErrAdapter == "adapter error"

NewCircuitBreaker(config) ==
    [ name                 |-> config.Name,
      failureThreshold     |-> config.FailureThreshold,
      successThreshold     |-> config.SuccessThreshold,
      timeout              |-> config.Timeout,
      maxTimeout           |-> config.MaxTimeout,
      consecutiveFailures  |-> 0,
      consecutiveSuccesses |-> 0,
      lastFailureTime      |-> ZeroTime,
      state                |-> CircuitClosed,
      totalRequests        |-> 0,
      successfulRequests   |-> 0,
      failedRequests       |-> 0 ]

\* now.Sub(cb.lastFailureTime) > cb.timeout.  The zero time lies centuries
\* before any clock reading, so the difference exceeds every timeout.
backoffElapsed_ge(cb, t) ==
    \/ cb.lastFailureTime = ZeroTime
    \/ t - cb.lastFailureTime >= cb.timeout

backoffElapsed(cb, t) ==
    \/ cb.lastFailureTime = ZeroTime
    \/ t - cb.lastFailureTime > cb.timeout

\* allowRequest: the breaker after the call and the value returned
allowRequest_keepSuccesses(cb, t) ==
    IF cb.state = CircuitClosed THEN [cb |-> cb, allowed |-> TRUE]
    ELSE IF cb.state = CircuitOpen THEN
        IF backoffElapsed(cb, t)
        THEN [cb |-> [cb EXCEPT !.state = CircuitHalfOpen], allowed |-> TRUE]
        ELSE [cb |-> cb, allowed |-> FALSE]
    ELSE IF cb.state = CircuitHalfOpen THEN [cb |-> cb, allowed |-> TRUE]
    ELSE [cb |-> cb, allowed |-> FALSE]

allowRequest_countRejected(cb, t) ==
    IF cb.state = CircuitClosed THEN [cb |-> cb, allowed |-> TRUE]
    ELSE IF cb.state = CircuitOpen THEN
        IF backoffElapsed(cb, t)
        THEN [cb |-> [cb EXCEPT !.state = CircuitHalfOpen,
                                !.consecutiveSuccesses = 0],
              allowed |-> TRUE]
        ELSE [cb |-> [cb EXCEPT !.totalRequests = @ + 1], allowed |-> FALSE]
    ELSE IF cb.state = CircuitHalfOpen THEN [cb |-> cb, allowed |-> TRUE]
    ELSE [cb |-> cb, allowed |-> FALSE]

allowRequest(cb, t) ==
    IF cb.state = CircuitClosed THEN [cb |-> cb, allowed |-> TRUE]
    ELSE IF cb.state = CircuitOpen THEN
        IF backoffElapsed(cb, t)
        THEN [cb |-> [cb EXCEPT !.state = CircuitHalfOpen,
                                !.consecutiveSuccesses = 0],
              allowed |-> TRUE]
        ELSE [cb |-> cb, allowed |-> FALSE]
    ELSE IF cb.state = CircuitHalfOpen THEN [cb |-> cb, allowed |-> TRUE]
    ELSE [cb |-> cb, allowed |-> FALSE]

\* the success branch of recordResult
recordSuccess_anyState(cb) ==
    LET c1 == [cb EXCEPT !.consecutiveFailures = 0,
                         !.consecutiveSuccesses = @ + 1,
                         !.successfulRequests = @ + 1]
    IN  IF c1.consecutiveSuccesses >= c1.successThreshold
        THEN [c1 EXCEPT !.state = CircuitClosed, !.consecutiveSuccesses = 0]
        ELSE c1

\* recordSuccess that leaves the count of consecutive failures alone
recordSuccess_keepFailures(cb) ==
    LET c1 == [cb EXCEPT !.consecutiveSuccesses = @ + 1,
                         !.successfulRequests = @ + 1]
    IN  IF c1.state = CircuitHalfOpen
           /\ c1.consecutiveSuccesses >= c1.successThreshold
        THEN [c1 EXCEPT !.state = CircuitClosed, !.consecutiveSuccesses = 0]
        ELSE c1

recordSuccess(cb) ==
    LET c1 == [cb EXCEPT !.consecutiveFailures = 0,
                         !.consecutiveSuccesses = @ + 1,
                         !.successfulRequests = @ + 1]
    IN  IF c1.state = CircuitHalfOpen
           /\ c1.consecutiveSuccesses >= c1.successThreshold
        THEN [c1 EXCEPT !.state = CircuitClosed, !.consecutiveSuccesses = 0]
        ELSE c1

\* the failure branch of recordResult
recordFailure_gt(cb, t) ==
    LET c1 == [cb EXCEPT !.consecutiveSuccesses = 0,
                         !.consecutiveFailures = @ + 1,
                         !.failedRequests = @ + 1,
                         !.lastFailureTime = t]
    IN  IF c1.consecutiveFailures > c1.failureThreshold
        THEN LET newTimeout == c1.timeout * c1.consecutiveFailures
             IN  [c1 EXCEPT !.state = CircuitOpen,
                            !.timeout = IF newTimeout > c1.maxTimeout
                                        THEN c1.maxTimeout
                                        ELSE newTimeout]
        ELSE c1

recordFailure_noCap(cb, t) ==
    LET c1 == [cb EXCEPT !.consecutiveSuccesses = 0,
                         !.consecutiveFailures = @ + 1,
                         !.failedRequests = @ + 1,
                         !.lastFailureTime = t]
    IN  IF c1.consecutiveFailures >= c1.failureThreshold
        THEN [c1 EXCEPT !.state = CircuitOpen,
                        !.timeout = c1.timeout * c1.consecutiveFailures]
        ELSE c1

\* recordFailure that multiplies by the count of failures before this one
recordFailure_beforeIncrement(cb, t) ==
    LET c1 == [cb EXCEPT !.consecutiveSuccesses = 0,
                         !.consecutiveFailures = @ + 1,
                         !.failedRequests = @ + 1,
                         !.lastFailureTime = t]
    IN  IF c1.consecutiveFailures >= c1.failureThreshold
        THEN LET newTimeout == c1.timeout * cb.consecutiveFailures
             IN  [c1 EXCEPT !.state = CircuitOpen,
                            !.timeout = IF newTimeout > c1.maxTimeout
                                        THEN c1.maxTimeout
                                        ELSE newTimeout]
        ELSE c1

recordFailure(cb, t) ==
    LET c1 == [cb EXCEPT !.consecutiveSuccesses = 0,
                         !.consecutiveFailures = @ + 1,
                         !.failedRequests = @ + 1,
                         !.lastFailureTime = t]
    IN  IF c1.consecutiveFailures >= c1.failureThreshold
        THEN LET newTimeout == c1.timeout * c1.consecutiveFailures
             IN  [c1 EXCEPT !.state = CircuitOpen,
                            !.timeout = IF newTimeout > c1.maxTimeout
                                        THEN c1.maxTimeout
                                        ELSE newTimeout]
        ELSE c1

recordResult(cb, success, t) ==
    IF success THEN recordSuccess(cb) ELSE recordFailure(cb, t)

incrementTotalRequests(cb) == [cb EXCEPT !.totalRequests = @ + 1]

Reset_clearStats(cb) ==
    [cb EXCEPT !.state = CircuitClosed,
               !.consecutiveFailures = 0,
               !.consecutiveSuccesses = 0,
               !.totalRequests = 0,
               !.successfulRequests = 0,
               !.failedRequests = 0]

\* Reset that also takes the backoff back to one tick
Reset_baseBackoff(cb) ==
    [cb EXCEPT !.state = CircuitClosed,
               !.consecutiveFailures = 0,
               !.consecutiveSuccesses = 0,
               !.timeout = 1]

Reset(cb) ==
    [cb EXCEPT !.state = CircuitClosed,
               !.consecutiveFailures = 0,
               !.consecutiveSuccesses = 0]

(***************************************************************************)
(* model_registry.go                                                       *)
(***************************************************************************)
ProviderHuggingFace == "huggingface"
ProviderGoogle == "google"
ProviderOpenRouter == "openrouter"

\* breaker settings of the startup models, durations in ticks of one minute
StartupFailureThreshold == 3
StartupSuccessThreshold == 2
StartupTimeout == 1
StartupMaxTimeout == 10

StartupCBConfig ==
    [ FailureThreshold |-> StartupFailureThreshold,
      SuccessThreshold |-> StartupSuccessThreshold,
      Timeout          |-> StartupTimeout,
      MaxTimeout       |-> StartupMaxTimeout ]

ModelConfig(name, provider, priority, enabled) ==
    [ Name |-> name, Provider |-> provider, Priority |-> priority,
      Enabled |-> enabled, CircuitBreaker |-> StartupCBConfig ]

getStartupModelConfigs ==
    << ModelConfig("Moonshot-Kimi-K2", ProviderOpenRouter, 1, TRUE),
       ModelConfig("Gemini-1.5-Flash", ProviderGoogle, 2, TRUE),
       ModelConfig("Sonoma-Sky-Alpha", ProviderOpenRouter, 3, TRUE),
       ModelConfig("Deepseek-V3.1", ProviderOpenRouter, 5, TRUE) >>

Swap(a, i, j) == [a EXCEPT ![i] = a[j], ![j] = a[i]]

\* the two nested loops of refreshEnabledModels, lines 141-147 (1-based)
RECURSIVE sortByPriority_descending(_, _, _)
sortByPriority_descending(a, i, j) ==
    IF i > Len(a) THEN a
    ELSE IF j > Len(a) THEN sortByPriority_descending(a, i + 1, i + 2)
    ELSE sortByPriority_descending(
             IF a[i].Priority < a[j].Priority THEN Swap(a, i, j) ELSE a, i, j + 1)

RECURSIVE sortByPriority(_, _, _)
sortByPriority(a, i, j) ==
    IF i > Len(a) THEN a
    ELSE IF j > Len(a) THEN sortByPriority(a, i + 1, i + 2)
    ELSE sortByPriority(
             IF a[i].Priority > a[j].Priority THEN Swap(a, i, j) ELSE a, i, j + 1)

IsEnabled(m) == m.Enabled

\* refreshEnabledModels that sorts every model, enabled or not
refreshEnabledModels_noFilter(ms) == sortByPriority(ms, 1, 2)

\* refreshEnabledModels: the enabled view computed from the model list
refreshEnabledModels(ms) == sortByPriority(SelectSeq(ms, IsEnabled), 1, 2)

\* index of the first model called name, 0 if there is none
RECURSIVE FirstNamed(_, _, _)
FirstNamed(ms, name, i) ==
    IF i > Len(ms) THEN 0
    ELSE IF ms[i].Name = name THEN i
    ELSE FirstNamed(ms, name, i + 1)

(***************************************************************************)
(* LLMDetector: the adapters' replies and their normalisation.  Scores are *)
(* counted in hundredths.                                                  *)
(***************************************************************************)
\* the score Detect starts its running best with
BaselineScore == 50

\* the score parseAnalysis reports when the reply has no SCORE field
UnparsedScore == 30

\* the score reported for an unknown classification label
SuspicionScore == 50

\* The text an analysis carries after "SCORE:", as the score pattern
\* [0-9]*\.?[0-9]+ matches it: the digits before the point and the digits
\* after it; matched is FALSE when the pattern matches nothing.
ScoreText(whole, frac) == [matched |-> TRUE, whole |-> whole, frac |-> frac]
NoScoreText == [matched |-> FALSE, whole |-> <<>>, frac |-> <<>>]

\* the number a run of decimal digits denotes
RECURSIVE DigitsValue(_)
DigitsValue(ds) ==
    IF ds = <<>> THEN 0
    ELSE 10 * DigitsValue(SubSeq(ds, 1, Len(ds) - 1)) + ds[Len(ds)]

\* strconv.ParseFloat on a matched score text, in hundredths (the texts used
\* here have at most two digits after the point)
ParseFloat(t) ==
    100 * DigitsValue(t.whole)
        + (IF Len(t.frac) = 0 THEN 0
           ELSE IF Len(t.frac) = 1 THEN 10 * t.frac[1]
           ELSE 10 * t.frac[1] + t.frac[2])

\* fmt.Sprintf("%.2f", score) for a score below 10
FormatScore(h) == ScoreText(<<h \div 100>>, <<(h \div 10) % 10, h % 10>>)

\* parseAnalysis: the score taken from an analysis
parseAnalysis_clamped(analysis) ==
    IF analysis.matched
    THEN IF ParseFloat(analysis) > 100 THEN 100 ELSE ParseFloat(analysis)
    ELSE UnparsedScore

parseAnalysis(analysis) ==
    IF analysis.matched THEN ParseFloat(analysis) ELSE UnparsedScore

\* callHuggingFaceClassification that reports the raw score for every label
callHuggingFaceClassification_rawScore(reply) == FormatScore(reply.score)

\* callHuggingFaceClassification lines 219-258: the top label and its raw
\* score, turned into the analysis line
callHuggingFaceClassification(reply) ==
    IF reply.label \in {"injection", "label_1"}
    THEN FormatScore(reply.score)
    ELSE IF reply.label \in {"safe", "label_0"}
    THEN LET benignScore == 100 - reply.score
         IN  FormatScore(IF benignScore > 80 THEN 10
                         ELSE IF benignScore > 60 THEN 30
                         ELSE benignScore)
    ELSE FormatScore(SuspicionScore)

\* top-1 results a classification model replies with
ClassifierReplies ==
    { [label |-> "injection", score |-> 85],
      [label |-> "safe", score |-> 99],
      [label |-> "label_0", score |-> 15],
      [label |-> "neutral", score |-> 70] }

\* analyses a generative model replies with: no SCORE field, "SCORE:0.1",
\* "SCORE:.85" and "SCORE:7"
GenerativeReplies ==
    { NoScoreText,
      ScoreText(<<0>>, <<1>>),
      ScoreText(<<>>, <<8, 5>>),
      ScoreText(<<7>>, <<>>) }

\* An analysis line as parseAnalysis reads it: the score text, the tokens of
\* the THREATS field after the split at commas, and the text of the REASON
\* field ("" when the line has none).
Analysis(score, threats, reason) ==
    [score |-> score, threats |-> threats, reason |-> reason]

\* parseAnalysis lines 454-467: the threat type a token stands for, "" for a
\* token the switch does not know
ThreatTypeOf(token) ==
    CASE token = "jailbreak" -> "jailbreak"
      [] token \in {"system_leak", "system_prompt_leak"} -> "system_prompt_leak"
      [] token = "data_extraction" -> "data_extraction"
      [] token = "injection" -> "injection"
      [] token = "encoding_attack" -> "encoding_attack"
      [] token = "delimiter_attack" -> "delimiter_attack"
      [] OTHER -> ""

RECURSIVE parseThreats(_)
parseThreats(tokens) ==
    IF tokens = <<>> THEN <<>>
    ELSE (IF ThreatTypeOf(Head(tokens)) = "" THEN <<>>
          ELSE <<ThreatTypeOf(Head(tokens))>>) \o parseThreats(Tail(tokens))

UnparsedReason == "Unable to parse LLM response"

\* parseAnalysis: score, threat types and reason of an analysis line
parseAnalysisFields(a) ==
    [ Score |-> parseAnalysis(a.score),
      ThreatTypes |-> parseThreats(a.threats),
      Reason |-> IF a.reason = "" THEN UnparsedReason ELSE a.reason ]

\* callHuggingFaceClassification lines 219-258: the whole analysis line
classificationLine(reply) ==
    Analysis(callHuggingFaceClassification(reply),
             IF reply.label \in {"injection", "label_1"}
             THEN <<"injection">> ELSE <<>>,
             IF reply.label \in {"injection", "label_1"}
             THEN "prompt injection detected"
             ELSE IF reply.label \in {"safe", "label_0"}
             THEN "classified as benign"
             ELSE "unknown classification label")

\* the endpoints NewLLMDetector configures, in order
Endpoints ==
    << [Model |-> "protectai/deberta-v3-base-prompt-injection-v2",
        Type |-> "huggingface_classification"],
       [Model |-> "meta-llama/Llama-Prompt-Guard-2-86M",
        Type |-> "huggingface_classification"],
       [Model |-> "gemini-2.0-flash", Type |-> "gemini"] >>

\* top-1 results the classification endpoints reply with inside Detect
DetectClassifierReplies ==
    { [label |-> "label_1", score |-> 60],
      [label |-> "injection", score |-> 85],
      [label |-> "safe", score |-> 99] }

\* analysis lines the generative endpoint replies with inside Detect
DetectGenerativeLines ==
    { Analysis(ScoreText(<<0>>, <<6>>), <<"jailbreak">>, "role play"),
      Analysis(ScoreText(<<0>>, <<6>>), <<"system_leak", "other">>,
               "asks for the system prompt"),
      Analysis(ScoreText(<<>>, <<8, 5>>), <<"injection">>, "overrides the rules"),
      Analysis(NoScoreText, <<>>, "") }

\* callEndpoint lines 153-162: the analysis lines an endpoint can return; an
\* error is the other outcome
callEndpoint(endpoint) ==
    IF endpoint.Type = "huggingface_classification"
    THEN {classificationLine(r) : r \in DetectClassifierReplies}
    ELSE DetectGenerativeLines

(***************************************************************************)
(* pipeline_with_fallback.go                                               *)
(***************************************************************************)
ErrAllModelsFailed == "all detection models are currently unavailable"

\* confidence thresholds a request can carry, in hundredths; 0 is "not supplied"
Thresholds == {0, 40}
Texts == {"", "ignore previous instructions"}

DefaultConfidenceThreshold == 60
DegradedConfidence == 50

\* the zero DetectionResult and the zero DetectionResponse
\* (analysis is history: the analysis line the result was computed from)
NoResult == [Score |-> 0, ThreatTypes |-> <<>>, analysis |-> NoScoreText]
NoResponse ==
    [IsMalicious |-> FALSE, Confidence |-> 0, ThreatTypes |-> <<>>,
     Endpoint |-> "", Tried |-> <<>>]

\* detectWithSpecificEndpoint, called at lines 189 and 191, has no body in the
\* source.  It is modelled from the orchestrator's contract: the adapter of
\* the model's family is called on the text, a reply is normalised by
\* parseAnalysis, and the running best, which starts at BaselineScore and is
\* replaced only by a higher score, is returned; an adapter error is returned
\* as the error.
detectResult(analysis) ==
    [Score |-> IF parseAnalysis(analysis) > BaselineScore
               THEN parseAnalysis(analysis)
               ELSE BaselineScore,
     ThreatTypes |-> <<>>,
     analysis |-> analysis]

detectWithSpecificEndpoint(model) ==
    LET analyses == IF model.Provider = ProviderHuggingFace
                    THEN {callHuggingFaceClassification(r) : r \in ClassifierReplies}
                    ELSE GenerativeReplies
    IN  {[ok |-> FALSE, result |-> NoResult]}
            \cup {[ok |-> TRUE, result |-> detectResult(a)] : a \in analyses}

\* detectWithModel: the outcomes of the adapter call for a model
detectWithModel(model) ==
    IF model.Provider \in {ProviderHuggingFace, ProviderGoogle}
    THEN detectWithSpecificEndpoint(model)
    ELSE {[ok |-> FALSE, result |-> NoResult]}

handleEmptyInput ==
    [IsMalicious |-> FALSE, Confidence |-> 0, ThreatTypes |-> <<>>,
     Endpoint |-> "none", Tried |-> <<>>]

handleAllModelsFailed(attemptedModels) ==
    [IsMalicious |-> FALSE, Confidence |-> DegradedConfidence,
     ThreatTypes |-> <<>>, Endpoint |-> "fallback_failed",
     Tried |-> attemptedModels]

\* buildResponse with the endpoint name of the single-model Pipeline
buildResponse_fixedEndpoint(result, config, modelUsed) ==
    LET threshold == IF config.ConfidenceThreshold = 0
                     THEN DefaultConfidenceThreshold
                     ELSE config.ConfidenceThreshold
    IN  [IsMalicious |-> result.Score >= threshold,
         Confidence |-> result.Score,
         ThreatTypes |-> result.ThreatTypes,
         Endpoint |-> "huggingface", Tried |-> <<>>]

\* buildResponse that compares with the default threshold only
buildResponse_defaultThreshold(result, config, modelUsed) ==
    [IsMalicious |-> result.Score >= DefaultConfidenceThreshold,
     Confidence |-> result.Score,
     ThreatTypes |-> result.ThreatTypes,
     Endpoint |-> modelUsed, Tried |-> <<>>]

buildResponse(result, config, modelUsed) ==
    LET threshold == IF config.ConfidenceThreshold = 0
                     THEN DefaultConfidenceThreshold
                     ELSE config.ConfidenceThreshold
    IN  [IsMalicious |-> result.Score >= threshold,
         Confidence |-> result.Score,
         ThreatTypes |-> result.ThreatTypes,
         Endpoint |-> modelUsed, Tried |-> <<>>]

applyConfig(config) ==
    IF config.ConfidenceThreshold = 0
    THEN [config EXCEPT !.ConfidenceThreshold = DefaultConfidenceThreshold]
    ELSE config

RecordSuccess(m) ==
    [m EXCEPT !.RequestsTotal = @ + 1, !.RequestsSuccessful = @ + 1]

\* RecordFailure that counts the failure and not the request
RecordFailure_failedOnly(m) ==
    [m EXCEPT !.RequestsFailed = @ + 1]

RecordFailure(m) ==
    [m EXCEPT !.RequestsTotal = @ + 1, !.RequestsFailed = @ + 1]

ErrNotFound == "circuit breaker not found"

\* no operational request has been answered yet
NoReply ==
    [op |-> "none", err |-> ErrNil, Status |-> "", ModelsAvailable |-> 0,
     TotalModels |-> 0]

\* the loop of GetHealth that counts every breaker, open or not
RECURSIVE healthyModels_anyState(_, _, _)
healthyModels_anyState(enabled, cbs, i) ==
    IF i > Len(enabled) THEN 0
    ELSE (IF enabled[i].Name \in DOMAIN cbs THEN 1 ELSE 0)
             + healthyModels_anyState(enabled, cbs, i + 1)

\* the loop of GetHealth, lines 271-280, from position i of the view on
RECURSIVE healthyModels(_, _, _)
healthyModels(enabled, cbs, i) ==
    IF i > Len(enabled) THEN 0
    ELSE (IF /\ enabled[i].Name \in DOMAIN cbs
             /\ cbs[enabled[i].Name].state # CircuitOpen
          THEN 1 ELSE 0)
             + healthyModels(enabled, cbs, i + 1)

GetHealth(enabled, cbs) ==
    LET healthy == healthyModels(enabled, cbs, 1)
    IN  [NoReply EXCEPT
            !.op = "health",
            !.Status = IF healthy = 0 THEN "critical - all models unavailable"
                       ELSE IF healthy < Len(enabled)
                       THEN "degraded - some models unavailable"
                       ELSE "healthy",
            !.ModelsAvailable = healthy,
            !.TotalModels = Len(enabled)]

\* initializeCircuitBreakers: one breaker per model of the enabled view
initializeCircuitBreakers(enabled) ==
    [n \in {enabled[i].Name : i \in 1..Len(enabled)} |->
        LET model == enabled[CHOOSE i \in 1..Len(enabled) :
                                 /\ enabled[i].Name = n
                                 /\ \A j \in (i + 1)..Len(enabled) :
                                        enabled[j].Name # n]
        IN  NewCircuitBreaker(
                [ Name |-> model.Name,
                  FailureThreshold |-> model.CircuitBreaker.FailureThreshold,
                  SuccessThreshold |-> model.CircuitBreaker.SuccessThreshold,
                  Timeout |-> model.CircuitBreaker.Timeout,
                  MaxTimeout |-> model.CircuitBreaker.MaxTimeout ])]

(***************************************************************************)
(* State                                                                   *)
(***************************************************************************)
VARIABLES
    models,           \* ModelRegistry.models, in insertion order
    enabledModels,    \* ModelRegistry.enabledModels, the ordered view
    circuitBreakers,  \* FallbackPipeline.circuitBreakers: name -> breaker
    metrics,          \* FallbackPipeline.metrics
    now,              \* the wall clock read by time.Now()
    an,               \* per goroutine: its position inside Analyze
    call,             \* per goroutine: its position inside CircuitBreaker.Call
    started,          \* Calls / requests started so far
    warm,             \* Calls / requests served one after the other before those
    regOps,           \* operator requests (registry changes, resets, reads) so far
    cbConfig,         \* history: the CircuitBreakerConfig each breaker was built from
    fnCalls,          \* history: per breaker, how often fn has run inside Call
    refused,          \* history: per breaker, Calls that returned ErrCircuitOpen
    hoSucc,           \* history: per breaker, successes recorded in a row since
                      \*          it entered HALF_OPEN
    reply,            \* the reply to the last operational request
    refresh,          \* the operator's position inside refreshEnabledModels
    det,              \* the position of the caller of LLMDetector.Detect
    reader            \* the goroutine serving GET /v1/metrics or reading a
                      \* breaker's statistics: its position, what it has read,
                      \* and who waits at the breaker's RWMutex

vars == <<models, enabledModels, circuitBreakers, metrics, now, an, call,
          started, warm, regOps, cbConfig, fnCalls, refused, hoSucc, reply,
          refresh, det, reader>>

registryVars == <<models, enabledModels, regOps, refresh>>

\* a goroutine that is not inside Call
IdleCall == [pc |-> "idle", cb |-> ""]

\* a goroutine that is not inside Analyze
IdleAnalyze ==
    [pc |-> "idle", text |-> "", config |-> [ConfidenceThreshold |-> 0],
     threshold |-> 0,  \* history: the confidence_threshold the request carried
     ctxDone |-> FALSE,  \* ctx.Done() is closed: deadline passed or cancelled
     view |-> <<>>, idx |-> 0, attemptedModels |-> <<>>, lastError |-> ErrNil,
     result |-> NoResult, response |-> NoResponse, err |-> ErrNil,
     registered |-> <<>>]  \* history: Registry.models when the view was read

\* goroutines are interchangeable: new work takes the lowest free one
Busy(p) ==
    call[p].pc # "idle" \/ an[p].pc \in {"calling", "succeeded", "failed"}
LowestFree(p) == ~Busy(p) /\ \A q \in Procs : q < p => Busy(q)

\* calls admitted and counted whose result is not recorded yet
InFlight(b) ==
    Cardinality({p \in Procs : call[p].cb = b /\ call[p].pc = "fn"})

\* calls admitted by allowRequest whose result is not recorded yet
Admitted(b) ==
    Cardinality({p \in Procs : call[p].cb = b /\ call[p].pc \in {"incr", "fn"}})

\* hoSucc after breaker b went from old to new by recording a result
HoSuccAfterRecord(b, old, new, success) ==
    IF old.state = CircuitHalfOpen /\ new.state = CircuitHalfOpen /\ success
    THEN hoSucc[b] + 1
    ELSE 0

(***************************************************************************)
(* FallbackPipeline.Analyze between two critical sections                  *)
(***************************************************************************)
\* Analyze has returned response and err; its locals are gone
Returned(a, response, err) ==
    [IdleAnalyze EXCEPT !.pc = "done", !.text = a.text,
                        !.response = response, !.err = err]

\* Analyze has panicked on a nil dereference
Panicked(a) ==
    [IdleAnalyze EXCEPT !.pc = "panic", !.text = a.text,
                        !.attemptedModels = a.attemptedModels]

\* The head of the loop at line 108 for the request state a, whose idx is the
\* position to try next: either the Call on the next model's breaker is
\* entered, or the view is exhausted and the request goes on to line 167.
\* A model without a breaker makes GetStateName dereference nil (line 114),
\* which ends the request in a panic.
BeginAttempt_stopOnOpen(p, a) ==
    IF a.idx > Len(a.view) \/ a.lastError = ErrCircuitOpen
    THEN /\ an' = [an EXCEPT ![p] = [a EXCEPT !.pc = "failed"]]
         /\ call' = [call EXCEPT ![p] = IdleCall]
    ELSE LET model == a.view[a.idx]
             tried == [a EXCEPT !.attemptedModels = Append(@, model.Name)]
         IN  IF model.Name \in DOMAIN circuitBreakers
             THEN /\ an' = [an EXCEPT ![p] = [tried EXCEPT !.pc = "calling"]]
                  /\ call' = [call EXCEPT ![p] =
                         [IdleCall EXCEPT !.pc = "allow", !.cb = model.Name]]
             ELSE /\ an' = [an EXCEPT ![p] = Panicked(tried)]
                  /\ call' = [call EXCEPT ![p] = IdleCall]

BeginAttempt(p, a) ==
    IF a.idx > Len(a.view)
    THEN /\ an' = [an EXCEPT ![p] = [a EXCEPT !.pc = "failed"]]
         /\ call' = [call EXCEPT ![p] = IdleCall]
    ELSE LET model == a.view[a.idx]
             tried == [a EXCEPT !.attemptedModels = Append(@, model.Name)]
         IN  IF model.Name \in DOMAIN circuitBreakers
             THEN /\ an' = [an EXCEPT ![p] = [tried EXCEPT !.pc = "calling"]]
                  /\ call' = [call EXCEPT ![p] =
                         [IdleCall EXCEPT !.pc = "allow", !.cb = model.Name]]
             ELSE /\ an' = [an EXCEPT ![p] = Panicked(tried)]
                  /\ call' = [call EXCEPT ![p] = IdleCall]

CallReturns_tryNextAfterSuccess(p, err, result) ==
    /\ refused' = [refused EXCEPT ![call[p].cb] =
                      IF err = ErrCircuitOpen THEN @ + 1 ELSE @]
    /\ IF an[p].pc = "calling"
       THEN BeginAttempt(p, [an[p] EXCEPT !.lastError = err, !.idx = @ + 1,
                                          !.result = result])
       ELSE /\ call' = [call EXCEPT ![p] = IdleCall]
            /\ an' = an

\* CallReturns that leaves the loop on the first adapter error
CallReturns_failFast(p, err, result) ==
    /\ refused' = [refused EXCEPT ![call[p].cb] =
                      IF err = ErrCircuitOpen THEN @ + 1 ELSE @]
    /\ IF an[p].pc = "calling"
       THEN IF err = ErrCircuitOpen
            THEN BeginAttempt(p, [an[p] EXCEPT !.lastError = err, !.idx = @ + 1])
            ELSE IF err # ErrNil
            THEN /\ an' = [an EXCEPT ![p] =
                            [@ EXCEPT !.pc = "failed", !.lastError = err]]
                 /\ call' = [call EXCEPT ![p] = IdleCall]
            ELSE /\ an' = [an EXCEPT ![p] =
                            [@ EXCEPT !.pc = "succeeded", !.result = result]]
                 /\ call' = [call EXCEPT ![p] = IdleCall]
       ELSE /\ call' = [call EXCEPT ![p] = IdleCall]
            /\ an' = an

\* Call returns err to goroutine p.  Inside Analyze (lines 125-140) an error
\* sends the loop to the next model and nil leaves it with the result; any
\* other caller just goes on.
CallReturns(p, err, result) ==
    /\ refused' = [refused EXCEPT ![call[p].cb] =
                      IF err = ErrCircuitOpen THEN @ + 1 ELSE @]
    /\ IF an[p].pc = "calling"
       THEN IF err # ErrNil
            THEN BeginAttempt(p, [an[p] EXCEPT !.lastError = err, !.idx = @ + 1])
            ELSE /\ an' = [an EXCEPT ![p] =
                            [@ EXCEPT !.pc = "succeeded", !.result = result]]
                 /\ call' = [call EXCEPT ![p] = IdleCall]
       ELSE /\ call' = [call EXCEPT ![p] = IdleCall]
            /\ an' = an

\* what fn can return to the Call of goroutine p: inside Analyze fn is the
\* closure of lines 119-123, elsewhere any function
Outcomes(p) ==
    IF an[p].pc = "calling"
    THEN detectWithModel(an[p].view[an[p].idx])
    ELSE {[ok |-> ok, result |-> NoResult] : ok \in BOOLEAN}

(***************************************************************************)
(* CircuitBreaker.Call, one action per critical section                    *)
(***************************************************************************)
\* Call line 60: allowRequest; a refusal returns ErrCircuitOpen at once
AllowRequest(p) ==
    /\ call[p].pc = "allow"
    /\ LET b == call[p].cb
           r == allowRequest(circuitBreakers[b], now)
       IN  /\ circuitBreakers' = [circuitBreakers EXCEPT ![b] = r.cb]
           /\ hoSucc' = [hoSucc EXCEPT ![b] =
                  IF r.cb.state # circuitBreakers[b].state THEN 0 ELSE @]
           /\ IF r.allowed
              THEN /\ call' = [call EXCEPT ![p].pc = "incr"]
                   /\ UNCHANGED <<an, refused>>
              ELSE CallReturns(p, ErrCircuitOpen, NoResult)
    /\ UNCHANGED <<registryVars, metrics, now, started, warm, cbConfig, reply,
                   fnCalls, det, reader>>

\* Call line 64; fn starts once the request is counted
IncrementTotalRequests(p) ==
    /\ call[p].pc = "incr"
    /\ circuitBreakers' = [circuitBreakers EXCEPT
           ![call[p].cb] = incrementTotalRequests(@)]
    /\ call' = [call EXCEPT ![p].pc = "fn"]
    /\ UNCHANGED <<registryVars, metrics, an, now, started, warm, cbConfig, reply,
                   fnCalls, refused, hoSucc, det, reader>>

\* Call lines 65-67: fn, which ran outside the breaker's lock, comes back
\* with outcome o, and recordResult records it
RecordOutcome(p, o) ==
    /\ call[p].pc = "fn"
    /\ LET b == call[p].cb
           new == recordResult(circuitBreakers[b], o.ok, now)
       IN  /\ circuitBreakers' = [circuitBreakers EXCEPT ![b] = new]
           /\ hoSucc' = [hoSucc EXCEPT ![b] =
                  HoSuccAfterRecord(b, circuitBreakers[b], new, o.ok)]
           /\ fnCalls' = [fnCalls EXCEPT ![b] = @ + 1]
    /\ CallReturns(p, IF o.ok THEN ErrNil ELSE ErrAdapter, o.result)
    /\ UNCHANGED <<registryVars, metrics, now, started, warm, cbConfig, reply, det, reader>>

RecordResult(p) == \E o \in Outcomes(p) : RecordOutcome(p, o)

\* a Reset that reaches every breaker of the map
ResetEffect_everyBreaker(b) ==
    /\ b \in DOMAIN circuitBreakers
    /\ circuitBreakers' = [c \in DOMAIN circuitBreakers |-> Reset(circuitBreakers[c])]
    /\ hoSucc' = [c \in DOMAIN hoSucc |-> 0]
    /\ UNCHANGED <<models, enabledModels, refresh, metrics, an, now, call, started, warm,
                   cbConfig, fnCalls, refused, det, reader>>

\* CircuitBreaker.Reset
ResetEffect(b) ==
    /\ b \in DOMAIN circuitBreakers
    /\ circuitBreakers' = [circuitBreakers EXCEPT ![b] = Reset(@)]
    /\ hoSucc' = [hoSucc EXCEPT ![b] = 0]
    /\ UNCHANGED <<models, enabledModels, refresh, metrics, an, now, call, started, warm,
                   cbConfig, fnCalls, refused, det, reader>>

\* an operator calls Reset
ResetBreaker(b) ==
    /\ regOps < MaxResets
    /\ regOps' = regOps + 1
    /\ ResetEffect(b)
    /\ reply' = reply

\* the clock advances by d ticks, up to the reading last
Tick(d, last) ==
    /\ now + d <= last
    /\ now' = now + d
    /\ UNCHANGED <<registryVars, metrics, an, circuitBreakers, call, started,
                   warm, cbConfig, reply, fnCalls, refused, hoSucc, det, reader>>

(***************************************************************************)
(* SpecCB: one breaker built by NewCircuitBreaker from any configuration,  *)
(* driven by callers of Call and Reset: first some Calls one after the     *)
(* other, then Calls that run concurrently                                 *)
(***************************************************************************)
CBName == "cb"

CBConfigs ==
    [ Name : {CBName},
      FailureThreshold : 1..MaxThreshold,
      SuccessThreshold : 1..MaxThreshold,
      Timeout : 1..MaxBaseTimeout,
      MaxTimeout : 1..MaxCapTimeout ]

NewMetrics ==
    [RequestsTotal |-> 0, RequestsSuccessful |-> 0, RequestsFailed |-> 0]

\* no mutator is inside refreshEnabledModels; before is the model list the
\* last mutator found (history)
IdleRefresh ==
    [ pc |-> "idle", k |-> 0, i |-> 0, j |-> 0, tmp |-> <<>>, before |-> <<>> ]

ErrDetectTimeout == "LLM detection timeout"
ErrAllEndpointsFailed == "all LLM endpoints failed"

\* Detect lines 71-76: the result Detect starts with; e and t say which
\* endpoint and which text a candidate came from (history), 0 for none
InitialBest ==
    [ Score |-> BaselineScore, ThreatTypes |-> <<>>,
      Reason |-> "Analyzing with LLM...", e |-> 0, t |-> 0 ]

\* no read is in progress.  readers counts the read locks held on the
\* breaker's mutex and waiting holds the goroutines blocked in its Lock();
\* the other fields are the values GetMetrics has read so far.
IdleReader ==
    [ op |-> "none", pc |-> "idle", cb |-> "", readers |-> 0, waiting |-> {},
      rateTotal |-> 0, rateSuccessful |-> 0,
      requests_total |-> 0, requests_successful |-> 0, requests_failed |-> 0 ]

\* nobody is inside LLMDetector.Detect
IdleDetect ==
    [ pc |-> "idle", e |-> 0, t |-> 0, nTexts |-> 0, bestResult |-> InitialBest,
      endpointWorked |-> FALSE, endpointSuccessCount |-> 0, lastError |-> ErrNil,
      ctxDone |-> FALSE, err |-> ErrNil,
      obtained |-> <<>> ]  \* history: the candidates parsed so far

InitCB ==
    /\ models = <<>>
    /\ enabledModels = <<>>
    /\ regOps = 0
    /\ \E config \in CBConfigs :
           /\ cbConfig = [b \in {CBName} |-> config]
           /\ circuitBreakers = [b \in {CBName} |-> NewCircuitBreaker(config)]
    /\ metrics = NewMetrics
    /\ now = 0
    /\ an = [p \in Procs |-> IdleAnalyze]
    /\ call = [p \in Procs |-> IdleCall]
    /\ started = 0
    /\ warm = 0
    /\ fnCalls = [b \in {CBName} |-> 0]
    /\ refused = [b \in {CBName} |-> 0]
    /\ hoSucc = [b \in {CBName} |-> 0]
    /\ reply = NoReply
    /\ refresh = [IdleRefresh EXCEPT !.before = models]
    /\ det = IdleDetect
    /\ reader = IdleReader

\* Call with an fn that returns an error, run without interruption at time t
CallFailing(cb, t) ==
    LET r == allowRequest(cb, t)
    IN  IF r.allowed
        THEN recordResult(incrementTotalRequests(r.cb), FALSE, t)
        ELSE r.cb

\* a goroutine makes such a Call while no other is inside Call
SerialFailure ==
    /\ started = 0
    /\ warm < MaxSerial
    /\ warm' = warm + 1
    /\ circuitBreakers' = [circuitBreakers EXCEPT ![CBName] = CallFailing(@, now)]
    /\ IF allowRequest(circuitBreakers[CBName], now).allowed
       THEN /\ fnCalls' = [fnCalls EXCEPT ![CBName] = @ + 1]
            /\ hoSucc' = [hoSucc EXCEPT ![CBName] = 0]
            /\ refused' = refused
       ELSE /\ refused' = [refused EXCEPT ![CBName] = @ + 1]
            /\ UNCHANGED <<fnCalls, hoSucc>>
    /\ UNCHANGED <<registryVars, metrics, an, now, call, started, cbConfig, reply,
                   det, reader>>

\* a goroutine enters cb.Call(fn)
CallStart(p) ==
    /\ LowestFree(p)
    /\ started < MaxCalls
    /\ started' = started + 1
    /\ call' = [call EXCEPT ![p] = [IdleCall EXCEPT !.pc = "allow", !.cb = CBName]]
    /\ UNCHANGED <<registryVars, metrics, an, circuitBreakers, now, warm,
                   cbConfig, reply, fnCalls, refused, hoSucc, det, reader>>

NextCB ==
    \/ SerialFailure
    \/ \E p \in Procs : CallStart(p)
    \/ \E p \in Procs : AllowRequest(p)
    \/ \E p \in Procs : IncrementTotalRequests(p)
    \/ \E p \in Procs : RecordResult(p)
    \/ ResetBreaker(CBName)
    \/ Tick(1, MaxNow)

SpecCB == InitCB /\ [][NextCB]_vars

(***************************************************************************)
(* Properties of the circuit breaker                                       *)
(***************************************************************************)
Breakers == DOMAIN circuitBreakers

\* a result recorded on breaker b in this step, by any goroutine
Recorded(b, success) ==
    \/ \E p \in Procs :
          /\ call[p].cb = b
          /\ \E o \in Outcomes(p) : o.ok = success /\ RecordOutcome(p, o)
    \/ /\ b = CBName
       /\ ~success
       /\ SerialFailure
       /\ allowRequest(circuitBreakers[b], now).allowed

AllowedTransitions ==
    { <<CircuitClosed, CircuitOpen>>,
      <<CircuitOpen, CircuitHalfOpen>>,
      <<CircuitHalfOpen, CircuitClosed>>,
      <<CircuitHalfOpen, CircuitOpen>> }

\* C1: every breaker starts CLOSED, and whenever its state changes the change
\* is CLOSED->OPEN, OPEN->HALF_OPEN, HALF_OPEN->CLOSED or HALF_OPEN->OPEN,
\* unless the step is a Reset, which ends in CLOSED.
C1_OnlyEnumeratedTransitions ==
    /\ \A b \in Breakers : circuitBreakers[b].state = CircuitClosed
    /\ [][\A b \in Breakers :
             LET s == circuitBreakers[b].state
                 t == circuitBreakers'[b].state
             IN  s # t =>
                   \/ <<s, t>> \in AllowedTransitions
                   \/ ResetBreaker(b) /\ t = CircuitClosed]_vars

\* C1 witness: a breaker that went CLOSED->OPEN->HALF_OPEN and has since
\* recorded a success without closing
C1_Witness ==
    \E b \in Breakers :
        /\ circuitBreakers[b].state = CircuitHalfOpen
        /\ circuitBreakers[b].consecutiveSuccesses > 0
        /\ circuitBreakers[b].failedRequests > 0

\* C2: a failure recorded while the breaker is HALF_OPEN leaves it OPEN.
C2_HalfOpenFailureOpens ==
    [][\A b \in Breakers :
          (circuitBreakers[b].state = CircuitHalfOpen /\ Recorded(b, FALSE))
              => circuitBreakers'[b].state = CircuitOpen]_vars

\* C3: a success recorded on a HALF_OPEN breaker closes it (and zeroes
\* consecutiveSuccesses) exactly when it is the successThreshold-th success
\* in a row since the breaker entered HALF_OPEN; an earlier success leaves
\* it HALF_OPEN, and nothing but that success or a Reset closes it.
C3_ClosesAtSuccessThreshold ==
    [][\A b \in Breakers :
          circuitBreakers[b].state = CircuitHalfOpen =>
            /\ hoSucc[b] < circuitBreakers[b].successThreshold
            /\ Recorded(b, TRUE) =>
                 IF hoSucc[b] + 1 = circuitBreakers[b].successThreshold
                 THEN /\ circuitBreakers'[b].state = CircuitClosed
                      /\ circuitBreakers'[b].consecutiveSuccesses = 0
                 ELSE /\ circuitBreakers'[b].state = CircuitHalfOpen
                      /\ circuitBreakers'[b].consecutiveSuccesses = hoSucc[b] + 1
            /\ (circuitBreakers'[b].state = CircuitClosed /\ ~ResetBreaker(b))
                 => Recorded(b, TRUE)]_vars

\* C3 witness: a breaker with successThreshold > 1 that opened and, never
\* Reset, has been closed again by its recorded successes
C3_Witness ==
    \E b \in Breakers :
        /\ regOps = 0
        /\ circuitBreakers[b].state = CircuitClosed
        /\ circuitBreakers[b].successThreshold > 1
        /\ circuitBreakers[b].consecutiveSuccesses = 0
        /\ circuitBreakers[b].lastFailureTime # ZeroTime
        /\ circuitBreakers[b].failedRequests >= circuitBreakers[b].failureThreshold
        /\ circuitBreakers[b].successfulRequests = circuitBreakers[b].successThreshold

\* C4 as stated: consecutiveFailures >= failureThreshold implies OPEN, in
\* every state between two breaker operations.
C4_ThresholdImpliesOpen ==
    \A b \in Breakers :
        circuitBreakers[b].consecutiveFailures >= circuitBreakers[b].failureThreshold
            => circuitBreakers[b].state = CircuitOpen

\* C4 amended: consecutiveFailures >= failureThreshold implies the breaker is
\* OPEN, or HALF_OPEN with an admitted call whose result is not recorded yet.
C4_ThresholdImpliesOpenOrProbing ==
    \A b \in Breakers :
        circuitBreakers[b].consecutiveFailures >= circuitBreakers[b].failureThreshold
            => \/ circuitBreakers[b].state = CircuitOpen
               \/ /\ circuitBreakers[b].state = CircuitHalfOpen
                  /\ Admitted(b) > 0

\* C4 witness: the probe has been admitted and the failure count still
\* stands at the threshold
C4_Witness ==
    \E b \in Breakers :
        /\ circuitBreakers[b].state = CircuitHalfOpen
        /\ circuitBreakers[b].consecutiveFailures >= circuitBreakers[b].failureThreshold
        /\ \E p \in Procs : call[p].cb = b /\ call[p].pc = "incr"

BreakerCounters(cb) ==
    <<cb.totalRequests, cb.successfulRequests, cb.failedRequests>>

\* C5: a Call that finds the breaker OPEN with the backoff not elapsed
\* returns ErrCircuitOpen, does not run fn and leaves the breaker, all its
\* counters included, as it was.
C5_OpenRejectsWithoutEffect ==
    [][\A p \in Procs :
          LET b == call[p].cb IN
          ( /\ AllowRequest(p)
            /\ circuitBreakers[b].state = CircuitOpen
            /\ ~(now - circuitBreakers[b].lastFailureTime > circuitBreakers[b].timeout) )
          => /\ call'[p].pc = "idle"
             /\ refused'[b] = refused[b] + 1
             /\ fnCalls' = fnCalls
             /\ circuitBreakers'[b] = circuitBreakers[b]]_vars

\* C5 witness: every Call made so far was one of the concurrent ones, and
\* the breaker, which is OPEN, has refused one of them and has run fn only
\* for the others
C5_Witness ==
    \E b \in Breakers :
        /\ warm = 0
        /\ refused[b] > 0
        /\ circuitBreakers[b].state = CircuitOpen
        /\ fnCalls[b] = circuitBreakers[b].totalRequests
        /\ fnCalls[b] + refused[b] = started

\* C6: successfulRequests + failedRequests <= totalRequests, the difference
\* is the number of calls counted but not yet recorded, and a refused call
\* changes none of the three counters.
C6_CountersAccountForInFlight ==
    /\ [](\A b \in Breakers :
            LET cb == circuitBreakers[b] IN
            /\ cb.successfulRequests + cb.failedRequests <= cb.totalRequests
            /\ cb.totalRequests - (cb.successfulRequests + cb.failedRequests)
                 = InFlight(b))
    /\ [][\A p \in Procs :
            (AllowRequest(p) /\ refused'[call[p].cb] = refused[call[p].cb] + 1)
              => BreakerCounters(circuitBreakers'[call[p].cb])
                   = BreakerCounters(circuitBreakers[call[p].cb])]_vars

\* C6 witness: two calls in flight at once, after an earlier one was recorded
C6_Witness ==
    \E b \in Breakers :
        /\ InFlight(b) = 2
        /\ circuitBreakers[b].failedRequests > 0
        /\ \E p \in Procs : call[p].cb = b /\ call[p].pc = "fn"

\* C7: a breaker configured with Timeout <= MaxTimeout keeps
\* Timeout <= timeout <= MaxTimeout.
C7_BackoffWithinBounds ==
    \A b \in Breakers :
        cbConfig[b].Timeout <= cbConfig[b].MaxTimeout =>
            /\ cbConfig[b].Timeout <= circuitBreakers[b].timeout
            /\ circuitBreakers[b].timeout <= cbConfig[b].MaxTimeout

\* C7 witness: the backoff has grown and been capped at MaxTimeout
C7_Witness ==
    \E b \in Breakers :
        /\ cbConfig[b].Timeout < cbConfig[b].MaxTimeout
        /\ circuitBreakers[b].timeout = cbConfig[b].MaxTimeout
        /\ circuitBreakers[b].timeout
             < cbConfig[b].Timeout * circuitBreakers[b].consecutiveFailures
        /\ circuitBreakers[b].state = CircuitOpen

\* C8: Reset leaves the breaker CLOSED with both consecutive counters 0 and
\* every other field as it was, and a second Reset changes nothing.
C8_ResetEffect ==
    [][\A b \in Breakers :
          ResetBreaker(b) =>
            LET old == circuitBreakers[b]
                new == circuitBreakers'[b]
            IN  /\ new.state = CircuitClosed
                /\ new.consecutiveFailures = 0
                /\ new.consecutiveSuccesses = 0
                /\ new.timeout = old.timeout
                /\ new.lastFailureTime = old.lastFailureTime
                /\ new.totalRequests = old.totalRequests
                /\ new.successfulRequests = old.successfulRequests
                /\ new.failedRequests = old.failedRequests
                /\ new.failureThreshold = old.failureThreshold
                /\ new.successThreshold = old.successThreshold
                /\ new.maxTimeout = old.maxTimeout
                /\ new.name = old.name
                /\ Reset(new) = new]_vars

\* C8 witness: a breaker Reset to CLOSED whose backoff had grown and whose
\* statistics are not empty
C8_Witness ==
    \E b \in Breakers :
        /\ regOps > 0
        /\ circuitBreakers[b].state = CircuitClosed
        /\ circuitBreakers[b].timeout > cbConfig[b].Timeout
        /\ circuitBreakers[b].lastFailureTime # ZeroTime
        /\ circuitBreakers[b].successfulRequests > 0
        /\ circuitBreakers[b].failedRequests > 0

\* C23: a Call that finds the breaker OPEN is admitted exactly when
\* now - lastFailureTime > timeout; the admission leaves the breaker
\* HALF_OPEN with consecutiveSuccesses 0 and nothing else changed, before fn
\* has run; otherwise, at now - lastFailureTime = timeout too, the Call is
\* refused and the breaker stays as it was.
C23_OpenAdmitsAfterBackoff ==
    [][\A p \in Procs :
          LET b == call[p].cb IN
          (AllowRequest(p) /\ circuitBreakers[b].state = CircuitOpen) =>
              /\ circuitBreakers[b].lastFailureTime # ZeroTime
              /\ IF now - circuitBreakers[b].lastFailureTime
                        > circuitBreakers[b].timeout
                 THEN /\ circuitBreakers'[b] =
                            [circuitBreakers[b] EXCEPT
                                !.state = CircuitHalfOpen,
                                !.consecutiveSuccesses = 0]
                      /\ call'[p].pc = "incr"
                      /\ fnCalls' = fnCalls
                      /\ refused' = refused
                 ELSE /\ circuitBreakers'[b] = circuitBreakers[b]
                      /\ call'[p].pc = "idle"
                      /\ refused'[b] = refused[b] + 1
                      /\ fnCalls' = fnCalls]_vars

\* C23 witness: a breaker that refused a Call while OPEN has admitted one a
\* tick after the backoff ran out; fn has not started
C23_Witness ==
    \E b \in Breakers :
        /\ circuitBreakers[b].state = CircuitHalfOpen
        /\ circuitBreakers[b].consecutiveSuccesses = 0
        /\ refused[b] > 0
        /\ now - circuitBreakers[b].lastFailureTime = circuitBreakers[b].timeout + 1
        /\ \E p \in Procs : call[p].cb = b /\ call[p].pc = "incr"
        /\ InFlight(b) = 0

Min(x, y) == IF x < y THEN x ELSE y

\* what recording a failure does to state and backoff, from breaker old to new
FailureEffect(old, new) ==
    LET n == old.consecutiveFailures + 1
    IN  /\ new.consecutiveFailures = n
        /\ IF n >= old.failureThreshold
           THEN /\ new.state = CircuitOpen
                /\ new.timeout = Min(old.timeout * n, old.maxTimeout)
           ELSE /\ new.state = old.state
                /\ new.timeout = old.timeout

\* C24: a recorded failure that leaves consecutiveFailures >= failureThreshold
\* leaves the breaker OPEN with timeout = min(timeout * consecutiveFailures,
\* maxTimeout), consecutiveFailures being the incremented count; one that
\* leaves it below failureThreshold changes neither state nor timeout.
C24_FailureSetsBackoff ==
    [][\A b \in Breakers :
          /\ (\E p \in Procs :
                 /\ call[p].cb = b
                 /\ \E o \in Outcomes(p) : ~o.ok /\ RecordOutcome(p, o))
               => FailureEffect(circuitBreakers[b], circuitBreakers'[b])
          /\ (b = CBName /\ SerialFailure
                 /\ allowRequest(circuitBreakers[b], now).allowed)
               => FailureEffect(allowRequest(circuitBreakers[b], now).cb,
                                circuitBreakers'[b])]_vars

\* C24 witness: the second failure in a row has opened a breaker and
\* doubled its backoff
C24_Witness ==
    \E b \in Breakers :
        /\ circuitBreakers[b].state = CircuitOpen
        /\ circuitBreakers[b].failureThreshold = 2
        /\ circuitBreakers[b].consecutiveFailures = 2
        /\ circuitBreakers[b].timeout = 2 * cbConfig[b].Timeout
        /\ circuitBreakers[b].successfulRequests = 0

C26_OpensAtFailureThreshold ==
    /\ [](\A b \in Breakers :
            circuitBreakers[b].state = CircuitClosed =>
                circuitBreakers[b].consecutiveFailures
                    < circuitBreakers[b].failureThreshold)
    /\ [][\A b \in Breakers :
            LET old == circuitBreakers[b]
                new == circuitBreakers'[b]
            IN  /\ (old.state = CircuitClosed /\ new.state # CircuitClosed) =>
                      /\ Recorded(b, FALSE)
                      /\ new.state = CircuitOpen
                      /\ new.consecutiveFailures = old.failureThreshold
                /\ (old.state = CircuitClosed /\ Recorded(b, FALSE)) =>
                      /\ new.consecutiveFailures = old.consecutiveFailures + 1
                      /\ (new.state = CircuitOpen)
                           = (old.consecutiveFailures + 1 = old.failureThreshold)
                /\ Recorded(b, TRUE) => new.consecutiveFailures = 0
                /\ ResetBreaker(b) => new.consecutiveFailures = 0
                /\ \A p \in Procs :
                      ( /\ call[p].cb = b
                        /\ AllowRequest(p)
                        /\ old.state = CircuitOpen
                        /\ now - old.lastFailureTime <= old.timeout )
                      => /\ call'[p].pc = "idle"
                         /\ refused'[b] = refused[b] + 1
                         /\ new = old]_vars

\* C26 witness: a breaker with failureThreshold 2 is still CLOSED after two
\* failures, a success between them having restarted the count
C26_Witness ==
    \E b \in Breakers :
        /\ regOps = 0
        /\ circuitBreakers[b].state = CircuitClosed
        /\ circuitBreakers[b].failureThreshold = 2
        /\ circuitBreakers[b].consecutiveFailures = 1
        /\ circuitBreakers[b].failedRequests = 2
        /\ circuitBreakers[b].successfulRequests = 1
        /\ circuitBreakers[b].timeout = cbConfig[b].Timeout

(***************************************************************************)
(* FallbackPipeline operations                                             *)
(***************************************************************************)
\* AnalyzeStart without the check of line 95
AnalyzeStart_noEmptyCheck(p) ==
    /\ LowestFree(p)
    /\ started < MaxRequests
    /\ started' = started + 1
    /\ \E text \in Texts, threshold \in Thresholds :
         LET req == [IdleAnalyze EXCEPT
                        !.text = text,
                        !.threshold = threshold,
                        !.config = [ConfidenceThreshold |-> threshold]]
         IN  BeginAttempt(p, [req EXCEPT !.config = applyConfig(@),
                                 !.view = enabledModels,
                                 !.idx = 1,
                                 !.registered = models])
    /\ UNCHANGED <<registryVars, metrics, circuitBreakers, now, warm, cbConfig, reply,
                   fnCalls, refused, hoSucc, det, reader>>

\* Analyze lines 91-116: a request arrives and reads the enabled view
AnalyzeStart(p) ==
    /\ LowestFree(p)
    /\ started < MaxRequests
    /\ started' = started + 1
    /\ \E text \in Texts, threshold \in Thresholds :
         LET req == [IdleAnalyze EXCEPT
                        !.text = text,
                        !.threshold = threshold,
                        !.config = [ConfidenceThreshold |-> threshold]]
         IN  IF Len(text) = 0
             THEN /\ an' = [an EXCEPT ![p] =
                         Returned(req, handleEmptyInput, ErrNil)]
                  /\ call' = call
             ELSE BeginAttempt(p, [req EXCEPT !.config = applyConfig(@),
                                              !.view = enabledModels,
                                              !.idx = 1,
                                              !.registered = models])
    /\ UNCHANGED <<registryVars, metrics, circuitBreakers, now, warm, cbConfig, reply,
                   fnCalls, refused, hoSucc, det, reader>>

\* Analyze lines 140-163 after a success, lines 166-176 after the loop: the
\* metrics are updated under their lock and Analyze returns.  With lastError
\* still unset, lastError.Error() at line 171 dereferences nil.
RecordMetrics(p) ==
    /\ an[p].pc \in {"succeeded", "failed"}
    /\ LET a == an[p]
       IN  IF a.pc = "succeeded"
           THEN /\ metrics' = RecordSuccess(metrics)
                /\ an' = [an EXCEPT ![p] =
                       Returned(a, buildResponse(a.result, a.config,
                                                 a.view[a.idx].Name),
                                ErrNil)]
           ELSE /\ metrics' = RecordFailure(metrics)
                /\ an' = [an EXCEPT ![p] =
                       IF a.lastError = ErrNil
                       THEN Panicked(a)
                       ELSE Returned(a, handleAllModelsFailed(a.attemptedModels),
                                     ErrAllModelsFailed)]
    /\ UNCHANGED <<registryVars, circuitBreakers, now, call, started, warm,
                   cbConfig, reply, fnCalls, refused, hoSucc, det, reader>>

\* FallbackPipeline.ResetCircuitBreaker, whose error the handler turns into
\* a 404
ResetCircuitBreaker(modelName) ==
    /\ regOps < MaxRegistryOps
    /\ regOps' = regOps + 1
    /\ IF modelName \in DOMAIN circuitBreakers
       THEN /\ ResetEffect(modelName)
            /\ reply' = [NoReply EXCEPT !.op = "reset", !.err = ErrNil]
       ELSE /\ reply' = [NoReply EXCEPT !.op = "reset", !.err = ErrNotFound]
            /\ UNCHANGED <<models, enabledModels, refresh, metrics, an, circuitBreakers,
                           now, call, started, warm, cbConfig, fnCalls, refused,
                           hoSucc, det, reader>>

\* FallbackPipeline.GetHealth, called by the handler of GET /health
HealthCheck ==
    /\ reply' = GetHealth(enabledModels, circuitBreakers)
    /\ UNCHANGED <<registryVars, metrics, an, circuitBreakers, now, call,
                   started, warm, cbConfig, fnCalls, refused, hoSucc, det, reader>>

\* FallbackPipeline.GetCircuitBreakerStats: an operator reads the statistics
\* of every breaker, each under that breaker's read lock
GetCircuitBreakerStats ==
    /\ regOps < MaxRegistryOps
    /\ regOps' = regOps + 1
    /\ reply' = [NoReply EXCEPT !.op = "stats",
                                !.TotalModels = Cardinality(DOMAIN circuitBreakers)]
    /\ UNCHANGED <<models, enabledModels, refresh, metrics, an, circuitBreakers, now,
                   call, started, warm, cbConfig, fnCalls, refused, hoSucc, det, reader>>

(***************************************************************************)
(* ModelRegistry operations                                                *)
(***************************************************************************)
SetModels(ms) ==
    /\ regOps < MaxRegistryOps
    /\ regOps' = regOps + 1
    /\ models' = ms
    /\ enabledModels' = refreshEnabledModels(ms)
    /\ UNCHANGED <<refresh, metrics, an, circuitBreakers, now, call, started, warm,
                   cbConfig, reply, fnCalls, refused, hoSucc, det, reader>>

\* a lookup that finds no model returns an error and changes nothing
NotFound ==
    /\ regOps < MaxRegistryOps
    /\ regOps' = regOps + 1
    /\ UNCHANGED <<models, enabledModels, refresh, metrics, an, circuitBreakers, now,
                   call, started, warm, cbConfig, reply, fnCalls, refused, hoSucc,
                   det, reader>>

EnableModel(name) ==
    LET i == FirstNamed(models, name, 1)
    IN  IF i = 0 THEN NotFound
        ELSE SetModels([models EXCEPT ![i].Enabled = TRUE])

DisableModel(name) ==
    LET i == FirstNamed(models, name, 1)
    IN  IF i = 0 THEN NotFound
        ELSE SetModels([models EXCEPT ![i].Enabled = FALSE])

UpdateModelPriority(name, newPriority) ==
    LET i == FirstNamed(models, name, 1)
    IN  IF i = 0 THEN NotFound
        ELSE SetModels([models EXCEPT ![i].Priority = newPriority])

LoadFromConfig(configs) == SetModels(configs)

\* The same operations step by step, as a goroutine that shares the registry
\* with them sees them: ModelRegistry has no mutex, so every write below is
\* visible to a reader as soon as it is made.

\* a mutator has written r.models and calls refreshEnabledModels
StartRefresh(ms) ==
    /\ refresh.pc = "idle"
    /\ regOps < MaxResets
    /\ regOps' = regOps + 1
    /\ models' = ms
    /\ refresh' = [IdleRefresh EXCEPT !.pc = "make", !.before = models]
    /\ UNCHANGED <<enabledModels, metrics, an, circuitBreakers, now, call, started,
                   warm, cbConfig, reply, fnCalls, refused, hoSucc, det, reader>>

EnableModelStart(name) ==
    LET i == FirstNamed(models, name, 1)
    IN  i # 0 /\ StartRefresh([models EXCEPT ![i].Enabled = TRUE])

DisableModelStart(name) ==
    LET i == FirstNamed(models, name, 1)
    IN  i # 0 /\ StartRefresh([models EXCEPT ![i].Enabled = FALSE])

UpdateModelPriorityStart(name, newPriority) ==
    LET i == FirstNamed(models, name, 1)
    IN  i # 0 /\ StartRefresh([models EXCEPT ![i].Priority = newPriority])

LoadFromConfigStart(configs) == StartRefresh(configs)

\* refreshEnabledModels line 132: the view is replaced by an empty slice
MakeStep ==
    /\ refresh.pc = "make"
    /\ enabledModels' = <<>>
    /\ refresh' = [refresh EXCEPT !.pc = "append", !.k = 1]
    /\ UNCHANGED <<models, regOps, metrics, an, circuitBreakers, now, call, started,
                   warm, cbConfig, reply, fnCalls, refused, hoSucc, det, reader>>

\* refreshEnabledModels lines 134-138: one turn of the loop over r.models
AppendStep ==
    /\ refresh.pc = "append"
    /\ IF refresh.k > Len(models)
       THEN /\ refresh' = [refresh EXCEPT !.pc = "sort", !.i = 1, !.j = 2]
            /\ UNCHANGED enabledModels
       ELSE /\ enabledModels' = IF models[refresh.k].Enabled
                                THEN Append(enabledModels, models[refresh.k])
                                ELSE enabledModels
            /\ refresh' = [refresh EXCEPT !.k = @ + 1]
    /\ UNCHANGED <<models, regOps, metrics, an, circuitBreakers, now, call, started,
                   warm, cbConfig, reply, fnCalls, refused, hoSucc, det, reader>>

\* refreshEnabledModels lines 141-147: one turn of the nested loops; the
\* exchange of line 144 starts with the write of element i
SortStep ==
    /\ refresh.pc = "sort"
    /\ LET i == refresh.i
           j == refresh.j
       IN  IF i > Len(enabledModels)
           THEN /\ refresh' = [refresh EXCEPT !.pc = "idle", !.i = 0, !.j = 0]
                /\ UNCHANGED enabledModels
           ELSE IF j > Len(enabledModels)
           THEN /\ refresh' = [refresh EXCEPT !.i = i + 1, !.j = i + 2]
                /\ UNCHANGED enabledModels
           ELSE IF enabledModels[i].Priority > enabledModels[j].Priority
           THEN /\ enabledModels' = [enabledModels EXCEPT ![i] = enabledModels[j]]
                /\ refresh' = [refresh EXCEPT !.pc = "swap",
                                              !.tmp = <<enabledModels[i]>>]
           ELSE /\ refresh' = [refresh EXCEPT !.j = j + 1]
                /\ UNCHANGED enabledModels
    /\ UNCHANGED <<models, regOps, metrics, an, circuitBreakers, now, call, started,
                   warm, cbConfig, reply, fnCalls, refused, hoSucc, det, reader>>

\* line 144, the write of element j, which completes the exchange
SwapStep ==
    /\ refresh.pc = "swap"
    /\ enabledModels' = [enabledModels EXCEPT ![refresh.j] = refresh.tmp[1]]
    /\ refresh' = [refresh EXCEPT !.pc = "sort", !.j = @ + 1, !.tmp = <<>>]
    /\ UNCHANGED <<models, regOps, metrics, an, circuitBreakers, now, call, started,
                   warm, cbConfig, reply, fnCalls, refused, hoSucc, det, reader>>

(***************************************************************************)
(* Spec: the pipeline built by NewFallbackPipeline, serving concurrent     *)
(* requests while operators reset breakers                                 *)
(***************************************************************************)
\* names the operations are invoked with, one of them unknown to the registry
OpNames == {"Moonshot-Kimi-K2", "Gemini-1.5-Flash", "Llama-Prompt-Guard"}

\* configurations handed to LoadFromConfig
LoadChoices ==
    { <<>>,
      << ModelConfig("Gemini-1.5-Flash", ProviderGoogle, 3, TRUE),
         ModelConfig("Llama-Prompt-Guard", ProviderHuggingFace, 1, TRUE) >>,
      << ModelConfig("Deepseek-V3.1", ProviderHuggingFace, 2, TRUE),
         ModelConfig("Gemini-1.5-Flash", ProviderGoogle, 2, TRUE),
         ModelConfig("Moonshot-Kimi-K2", ProviderOpenRouter, 1, TRUE) >> }

\* the breakers after k requests, one after the other, failed on every model
RECURSIVE AfterFailedRequests(_, _, _)
AfterFailedRequests(cbs, k, t) ==
    IF k = 0 THEN cbs
    ELSE AfterFailedRequests([b \in DOMAIN cbs |-> CallFailing(cbs[b], t)],
                             k - 1, t)

\* The pipeline as NewFallbackPipeline builds it, fresh or after it has
\* served up to MaxWarm requests whose adapter calls all failed.
Init ==
    /\ models = getStartupModelConfigs
    /\ enabledModels = refreshEnabledModels(models)
    /\ regOps = 0
    /\ now = 0
    /\ \E k \in 0..MaxWarm :
         LET fresh == initializeCircuitBreakers(enabledModels)
         IN  /\ circuitBreakers = AfterFailedRequests(fresh, k, now)
             /\ cbConfig = [b \in DOMAIN fresh |->
                    [ Name |-> b,
                      FailureThreshold |-> fresh[b].failureThreshold,
                      SuccessThreshold |-> fresh[b].successThreshold,
                      Timeout |-> fresh[b].timeout,
                      MaxTimeout |-> fresh[b].maxTimeout ]]
             /\ metrics = [RequestsTotal |-> k, RequestsSuccessful |-> 0,
                           RequestsFailed |-> k]
             /\ warm = k
    /\ an = [p \in Procs |-> IdleAnalyze]
    /\ call = [p \in Procs |-> IdleCall]
    /\ started = 0
    /\ fnCalls = [b \in DOMAIN circuitBreakers |-> circuitBreakers[b].totalRequests]
    /\ refused = [b \in DOMAIN circuitBreakers |->
                     warm - circuitBreakers[b].totalRequests]
    /\ hoSucc = [b \in DOMAIN circuitBreakers |-> 0]
    /\ reply = NoReply
    /\ refresh = [IdleRefresh EXCEPT !.before = models]
    /\ det = IdleDetect
    /\ reader = IdleReader

\* the requests and their breaker calls
Serve(P) ==
    \/ \E p \in P : AnalyzeStart(p)
    \/ \E p \in P : AllowRequest(p)
    \/ \E p \in P : IncrementTotalRequests(p)
    \/ \E p \in P : RecordResult(p)
    \/ \E p \in P : RecordMetrics(p)

\* In Spec the clock moves in steps that outlast the first backoff of a
\* startup breaker (StartupTimeout * StartupFailureThreshold).
LongTick == StartupTimeout * StartupFailureThreshold + 1

Next ==
    \/ Serve(Procs)
    \/ \E n \in OpNames : regOps < MaxResets /\ ResetCircuitBreaker(n)
    \/ Tick(LongTick, LongTick * MaxLongTicks)

Spec == Init /\ [][Next]_vars

(***************************************************************************)
(* SpecReg: the same pipeline while an operator changes the registry;      *)
(* requests are served one at a time                                       *)
(***************************************************************************)
RegistryNext ==
    \/ \E n \in OpNames : EnableModel(n)
    \/ \E n \in OpNames : DisableModel(n)
    \/ \E n \in OpNames, pr \in 1..MaxPriority : UpdateModelPriority(n, pr)
    \/ \E configs \in LoadChoices : LoadFromConfig(configs)

NextReg ==
    \/ Serve({1})
    \/ RegistryNext

SpecReg == Init /\ [][NextReg]_vars

(***************************************************************************)
(* SpecOps: the operational surface of the pipeline, fresh or after the    *)
(* failed requests of Init: health snapshots and breaker resets while the  *)
(* operator changes the registry                                           *)
(***************************************************************************)
NextOps ==
    \/ RegistryNext
    \/ \E n \in OpNames : ResetCircuitBreaker(n)
    \/ HealthCheck

SpecOps == Init /\ [][NextOps]_vars

(***************************************************************************)
(* SpecCtx: the same pipeline serving requests one at a time, each under   *)
(* the deadline the handler gives it                                       *)
(***************************************************************************)
\* the deadline of the request of goroutine p passes, or its caller cancels,
\* while Analyze is in its loop
Expire(p) ==
    /\ an[p].pc = "calling"
    /\ ~an[p].ctxDone
    /\ an' = [an EXCEPT ![p].ctxDone = TRUE]
    /\ UNCHANGED <<registryVars, metrics, circuitBreakers, now, call, started,
                   warm, cbConfig, reply, fnCalls, refused, hoSucc, det, reader>>

NextCtx ==
    \/ Serve({1})
    \/ Expire(1)

SpecCtx == Init /\ [][NextCtx]_vars

(***************************************************************************)
(* SpecIso: the same pipeline serving two requests at a time while an      *)
(* operator resets breakers and reads their statistics                     *)
(***************************************************************************)
NextIso ==
    \/ Serve({1, 2})
    \/ \E n \in OpNames : regOps < MaxResets /\ ResetCircuitBreaker(n)
    \/ regOps < MaxResets /\ GetCircuitBreakerStats

SpecIso == Init /\ [][NextIso]_vars

(***************************************************************************)
(* SpecRace: one request at a time reads the registry while an operator's  *)
(* mutation is inside refreshEnabledModels                                 *)
(***************************************************************************)
NextRace ==
    \/ Serve({1})
    \/ \E n \in OpNames : EnableModelStart(n)
    \/ \E n \in OpNames : DisableModelStart(n)
    \/ \E n \in OpNames, pr \in 1..MaxPriority : UpdateModelPriorityStart(n, pr)
    \/ \E configs \in LoadChoices : LoadFromConfigStart(configs)
    \/ MakeStep
    \/ AppendStep
    \/ SortStep
    \/ SwapStep

SpecRace == Init /\ [][NextRace]_vars

(***************************************************************************)
(* SpecMetrics: GET /v1/metrics is served while a request is running       *)
(***************************************************************************)
\* GetMetrics line 110: the handler gets the pipeline's Metrics object
GetMetricsStart ==
    /\ reader.pc = "idle"
    /\ regOps < MaxResets
    /\ regOps' = regOps + 1
    /\ reader' = [IdleReader EXCEPT !.op = "metrics", !.pc = "cond"]
    /\ UNCHANGED <<models, enabledModels, refresh, metrics, an, circuitBreakers, now,
                   call, started, warm, cbConfig, reply, fnCalls, refused, hoSucc,
                   det>>

\* GetMetrics lines 113-121: the handler reads the counters one after the
\* other: RequestsTotal and RequestsSuccessful as fields, for the success
\* rate, then RequestsTotal through GetRequestsTotal, which holds the read
\* lock for that one read, then RequestsSuccessful and RequestsFailed as
\* fields
GetMetricsRead ==
    /\ reader.op = "metrics"
    /\ reader.pc \in {"cond", "num", "den", "total", "successful", "failed"}
    /\ reader' =
         CASE reader.pc = "cond" ->
                [reader EXCEPT !.pc = IF metrics.RequestsTotal > 0
                                      THEN "num" ELSE "total"]
           [] reader.pc = "num" ->
                [reader EXCEPT !.pc = "den",
                               !.rateSuccessful = metrics.RequestsSuccessful]
           [] reader.pc = "den" ->
                [reader EXCEPT !.pc = "total",
                               !.rateTotal = metrics.RequestsTotal]
           [] reader.pc = "total" ->
                [reader EXCEPT !.pc = "successful",
                               !.requests_total = metrics.RequestsTotal]
           [] reader.pc = "successful" ->
                [reader EXCEPT !.pc = "failed",
                               !.requests_successful = metrics.RequestsSuccessful]
           [] reader.pc = "failed" ->
                [reader EXCEPT !.pc = "done",
                               !.requests_failed = metrics.RequestsFailed]
    /\ UNCHANGED <<registryVars, metrics, an, circuitBreakers, now, call, started,
                   warm, cbConfig, reply, fnCalls, refused, hoSucc, det>>

NextMetrics ==
    \/ Serve({1})
    \/ GetMetricsStart
    \/ GetMetricsRead

SpecMetrics == Init /\ [][NextMetrics]_vars

(***************************************************************************)
(* SpecLock: GetStats reads a breaker while a request calls through it.    *)
(* The breaker's sync.RWMutex admits no new reader once a writer waits in  *)
(* Lock(), and admits the writer once no reader holds the lock.            *)
(***************************************************************************)
\* the positions of Call from which the goroutine calls Lock() next:
\* allowRequest, incrementTotalRequests, recordResult
LockSites == {"allow", "incr", "fn"}

\* a goroutine waits in Lock() on the breaker the reader works on
WriterWaiting ==
    \E p \in Procs :
        /\ <<p, call[p].pc>> \in reader.waiting
        /\ call[p].cb = reader.cb

\* GetCircuitBreakerStats line 308 / GetHealth line 274: cb.GetStats()
GetStatsStart(b) ==
    /\ reader.pc = "idle"
    /\ b \in DOMAIN circuitBreakers
    /\ regOps < MaxResets
    /\ regOps' = regOps + 1
    /\ reader' = [IdleReader EXCEPT !.op = "stats", !.pc = "rlock", !.cb = b]
    /\ UNCHANGED <<models, enabledModels, refresh, metrics, an, circuitBreakers, now,
                   call, started, warm, cbConfig, reply, fnCalls, refused, hoSucc,
                   det>>

\* GetStats line 160: cb.mutex.RLock()
GetStatsRLock ==
    /\ reader.pc = "rlock"
    /\ ~WriterWaiting
    /\ reader' = [reader EXCEPT !.pc = "getState", !.readers = @ + 1]
    /\ UNCHANGED <<registryVars, metrics, an, circuitBreakers, now, call, started,
                   warm, cbConfig, reply, fnCalls, refused, hoSucc, det>>

\* Lock() at the head of allowRequest, incrementTotalRequests or
\* recordResult finds the read lock held: the goroutine waits, and from
\* now on RLock() waits behind it
WriterBlocks(p) ==
    /\ call[p].pc \in LockSites
    /\ call[p].cb = reader.cb
    /\ reader.readers > 0
    /\ <<p, call[p].pc>> \notin reader.waiting
    /\ reader' = [reader EXCEPT !.waiting = @ \cup {<<p, call[p].pc>>}]
    /\ UNCHANGED <<registryVars, metrics, an, circuitBreakers, now, call, started,
                   warm, cbConfig, reply, fnCalls, refused, hoSucc, det>>

\* GetStats line 171 calls GetStateName, which calls GetState, whose line
\* 138 is cb.mutex.RLock() again, with the read lock of line 160 still held
GetStateRLock ==
    /\ reader.pc = "getState"
    /\ ~WriterWaiting
    /\ reader' = [reader EXCEPT !.pc = "getStateReturn", !.readers = @ + 1]
    /\ UNCHANGED <<registryVars, metrics, an, circuitBreakers, now, call, started,
                   warm, cbConfig, reply, fnCalls, refused, hoSucc, det>>

\* GetState returns (deferred RUnlock, line 139), then GetStats returns
\* (deferred RUnlock, line 161)
GetStatsRUnlock ==
    /\ reader.pc \in {"getStateReturn", "return"}
    /\ reader' = [reader EXCEPT !.pc = IF @ = "getStateReturn" THEN "return"
                                       ELSE "done",
                                !.readers = @ - 1]
    /\ UNCHANGED <<registryVars, metrics, an, circuitBreakers, now, call, started,
                   warm, cbConfig, reply, fnCalls, refused, hoSucc, det>>

\* Lock() succeeds when nobody holds the read lock
MayLock(p) == ~(reader.readers > 0 /\ call[p].cb = reader.cb)

NextLock ==
    \/ AnalyzeStart(1)
    \/ MayLock(1) /\ AllowRequest(1)
    \/ MayLock(1) /\ IncrementTotalRequests(1)
    \/ MayLock(1) /\ RecordResult(1)
    \/ RecordMetrics(1)
    \/ \E b \in DOMAIN circuitBreakers : GetStatsStart(b)
    \/ GetStatsRLock
    \/ WriterBlocks(1)
    \/ GetStateRLock
    \/ GetStatsRUnlock

SpecLock == Init /\ [][NextLock]_vars

(***************************************************************************)
(* SpecLive: one breaker while the clock keeps running and Calls keep      *)
(* arriving; fn fails only up to a point, and the breaker's statistics are *)
(* read                                                                    *)
(***************************************************************************)
\* the last reading of the clock: later than any backoff that started with
\* a failure at MaxNow
LiveLast == MaxNow + MaxCapTimeout + 1

\* fn may still return an error
MayFail ==
    /\ now <= MaxNow
    /\ circuitBreakers[CBName].failedRequests < MaxCalls

\* Calls that arrive after the first MaxCalls: one more goroutine enters
\* Call.  Arrivals that would find the circuit CLOSED or be refused are left
\* out, they change nothing but counters.
ArrivingCall(p) ==
    /\ LowestFree(p)
    /\ circuitBreakers[CBName].state # CircuitClosed
    /\ allowRequest(circuitBreakers[CBName], now).allowed
    /\ call' = [call EXCEPT ![p] = [IdleCall EXCEPT !.pc = "allow", !.cb = CBName]]
    /\ UNCHANGED <<registryVars, metrics, an, circuitBreakers, now, started, warm,
                   cbConfig, reply, fnCalls, refused, hoSucc, det, reader>>

\* fn returns and recordResult records its outcome
RecordLive(p) ==
    \E o \in Outcomes(p) : (o.ok \/ MayFail) /\ RecordOutcome(p, o)

NextLive ==
    \/ \E p \in {1, 2} : CallStart(p)
    \/ \E p \in {1, 2} : ArrivingCall(p)
    \/ \E p \in {1, 2} : MayLock(p) /\ AllowRequest(p)
    \/ \E p \in {1, 2} : MayLock(p) /\ IncrementTotalRequests(p)
    \/ \E p \in {1, 2} : MayLock(p) /\ RecordLive(p)
    \/ Tick(1, LiveLast)
    \/ GetStatsStart(CBName)
    \/ GetStatsRLock
    \/ \E p \in {1, 2} : WriterBlocks(p)
    \/ GetStateRLock
    \/ GetStatsRUnlock

\* the clock runs, every goroutine inside Call or GetStats takes its next
\* step whenever the mutex lets it, and Calls keep arriving
SpecLive ==
    /\ InitCB
    /\ [][NextLive]_vars
    /\ WF_vars(Tick(1, LiveLast))
    /\ \A p \in {1, 2} :
          /\ WF_vars(MayLock(p) /\ AllowRequest(p))
          /\ WF_vars(MayLock(p) /\ IncrementTotalRequests(p))
          /\ WF_vars(MayLock(p) /\ RecordLive(p))
    /\ WF_vars(\E p \in {1, 2} : ArrivingCall(p))
    /\ WF_vars(GetStatsRLock)
    /\ WF_vars(GetStateRLock)
    /\ WF_vars(GetStatsRUnlock)

(***************************************************************************)
(* SpecDetect: one call of LLMDetector.Detect                              *)
(***************************************************************************)
\* Detect lines 68-91: the texts to test and the running best
DetectStart ==
    /\ det.pc = "idle"
    /\ \E n \in 0..MaxDecoded :
         det' = [IdleDetect EXCEPT !.pc = "loop", !.e = 1, !.nTexts = 1 + n]
    /\ UNCHANGED <<registryVars, metrics, an, circuitBreakers, now, call, started,
                   warm, cbConfig, reply, fnCalls, refused, hoSucc, reader>>

\* the deadline of line 86 passes
DetectDeadline ==
    /\ det.pc \in {"loop", "call"}
    /\ ~det.ctxDone
    /\ det' = [det EXCEPT !.ctxDone = TRUE]
    /\ UNCHANGED <<registryVars, metrics, an, circuitBreakers, now, call, started,
                   warm, cbConfig, reply, fnCalls, refused, hoSucc, reader>>

\* Detect lines 93-103 and 138-149: the head of the loop over the endpoints
\* and the return after it.  result and bestResult are one object, so the
\* reason written at line 146 is the reason of the running best.
DetectLoopHead ==
    /\ det.pc = "loop"
    /\ det' =
         IF det.e > Len(Endpoints)
         THEN IF det.endpointSuccessCount > 0
              THEN [det EXCEPT !.pc = "returned"]
              ELSE [det EXCEPT !.pc = "returned", !.err = ErrAllEndpointsFailed,
                               !.bestResult.Reason = "All LLM endpoints failed"]
         ELSE IF det.ctxDone
         THEN IF det.endpointSuccessCount > 0
              THEN [det EXCEPT !.pc = "returned"]
              ELSE [det EXCEPT !.pc = "returned", !.err = ErrDetectTimeout]
         ELSE [det EXCEPT !.pc = "call", !.t = 1, !.endpointWorked = FALSE]
    /\ UNCHANGED <<registryVars, metrics, an, circuitBreakers, now, call, started,
                   warm, cbConfig, reply, fnCalls, refused, hoSucc, reader>>

\* Detect that lets a candidate with an equal score replace the running best
DetectCandidate_replaceOnTie ==
    /\ det.pc = "call"
    /\ det.t <= det.nTexts
    /\ \/ det' = [det EXCEPT !.lastError = "error", !.t = @ + 1]
       \/ /\ ~det.ctxDone
          /\ \E analysis \in callEndpoint(Endpoints[det.e]) :
               LET c == parseAnalysisFields(analysis)
                   cand == [InitialBest EXCEPT !.Score = c.Score,
                               !.ThreatTypes = c.ThreatTypes, !.Reason = c.Reason,
                               !.e = det.e, !.t = det.t]
                   best == IF c.Score >= det.bestResult.Score
                           THEN cand ELSE det.bestResult
               IN  det' = [det EXCEPT
                              !.bestResult = best,
                              !.endpointWorked = TRUE,
                              !.obtained = Append(@, cand),
                              !.pc = IF c.Score >= 80 THEN "returned" ELSE @,
                              !.t = IF c.Score >= 80 THEN @ ELSE @ + 1]
    /\ UNCHANGED <<registryVars, metrics, an, circuitBreakers, now, call, started,
                   warm, cbConfig, reply, fnCalls, refused, hoSucc, reader>>

\* Detect that goes on with the next text after a score of 0.8 or more
DetectCandidate_noEarlyExit ==
    /\ det.pc = "call"
    /\ det.t <= det.nTexts
    /\ \/ det' = [det EXCEPT !.lastError = "error", !.t = @ + 1]
       \/ /\ ~det.ctxDone
          /\ \E analysis \in callEndpoint(Endpoints[det.e]) :
               LET c == parseAnalysisFields(analysis)
                   cand == [InitialBest EXCEPT !.Score = c.Score,
                               !.ThreatTypes = c.ThreatTypes, !.Reason = c.Reason,
                               !.e = det.e, !.t = det.t]
                   best == IF c.Score > det.bestResult.Score
                           THEN cand ELSE det.bestResult
               IN  det' = [det EXCEPT
                              !.bestResult = best,
                              !.endpointWorked = TRUE,
                              !.obtained = Append(@, cand),
                              !.t = @ + 1]
    /\ UNCHANGED <<registryVars, metrics, an, circuitBreakers, now, call, started,
                   warm, cbConfig, reply, fnCalls, refused, hoSucc, reader>>

\* Detect lines 105-127: one text is sent to the current endpoint.  A call
\* made after the deadline fails, the request carries ctx.
DetectCandidate ==
    /\ det.pc = "call"
    /\ det.t <= det.nTexts
    /\ \/ det' = [det EXCEPT !.lastError = "error", !.t = @ + 1]
       \/ /\ ~det.ctxDone
          /\ \E analysis \in callEndpoint(Endpoints[det.e]) :
               LET c == parseAnalysisFields(analysis)
                   cand == [InitialBest EXCEPT !.Score = c.Score,
                               !.ThreatTypes = c.ThreatTypes, !.Reason = c.Reason,
                               !.e = det.e, !.t = det.t]
                   best == IF c.Score > det.bestResult.Score
                           THEN cand ELSE det.bestResult
               IN  det' = [det EXCEPT
                              !.bestResult = best,
                              !.endpointWorked = TRUE,
                              !.obtained = Append(@, cand),
                              !.pc = IF c.Score >= 80 THEN "returned" ELSE @,
                              !.t = IF c.Score >= 80 THEN @ ELSE @ + 1]
    /\ UNCHANGED <<registryVars, metrics, an, circuitBreakers, now, call, started,
                   warm, cbConfig, reply, fnCalls, refused, hoSucc, reader>>

\* Detect lines 130-136: every text was sent to the current endpoint
DetectEndpointEnd ==
    /\ det.pc = "call"
    /\ det.t > det.nTexts
    /\ det' = [det EXCEPT !.pc = "loop", !.e = @ + 1,
                          !.endpointSuccessCount =
                              IF det.endpointWorked THEN @ + 1 ELSE @]
    /\ UNCHANGED <<registryVars, metrics, an, circuitBreakers, now, call, started,
                   warm, cbConfig, reply, fnCalls, refused, hoSucc, reader>>

InitDetect == Init /\ warm = 0

NextDetect ==
    \/ DetectStart
    \/ DetectDeadline
    \/ DetectLoopHead
    \/ DetectCandidate
    \/ DetectEndpointEnd

SpecDetect == InitDetect /\ [][NextDetect]_vars

(***************************************************************************)
(* Properties of Analyze                                                   *)
(***************************************************************************)
\* the position of descriptor m in view v, 0 if absent
RECURSIVE PositionIn(_, _, _)
PositionIn(v, m, i) ==
    IF i > Len(v) THEN 0
    ELSE IF v[i] = m THEN i
    ELSE PositionIn(v, m, i + 1)

\* C9: while a request is trying the descriptor at position idx of its view,
\* the descriptors attempted so far are the first idx of the view in order,
\* the breaker being consulted is that descriptor's, and every descriptor
\* that was enabled when the request read the view and has a smaller
\* priority number than an attempted one was attempted before it.
C9_AttemptsInPriorityOrder ==
    \A p \in Procs :
        an[p].pc = "calling" =>
            LET v == an[p].view
                k == an[p].idx
                reg == an[p].registered
            IN  /\ k \in 1..Len(v)
                /\ an[p].attemptedModels = [i \in 1..k |-> v[i].Name]
                /\ call[p].pc # "idle"
                /\ call[p].cb = v[k].Name
                /\ \A i \in 1..k : \A n \in 1..Len(reg) :
                       (reg[n].Enabled /\ reg[n].Priority < v[i].Priority)
                           => PositionIn(v, reg[n], 1) \in 1..(i - 1)

\* C9 witness: a request has reached its third descriptor while the registry
\* lists the enabled descriptors in another order than their priorities
C9_Witness ==
    \E p \in Procs :
        /\ an[p].pc = "calling"
        /\ an[p].idx >= 3
        /\ SelectSeq(an[p].registered, IsEnabled) # an[p].view
        /\ an[p].view[1].Priority < an[p].view[3].Priority

\* C10: a Call of Analyze that the breaker refuses runs no adapter and leaves
\* every breaker, counters included, as it was, and Analyze goes on to the
\* next descriptor of its view: it adds that descriptor to the attempted ones
\* and, the descriptor having a breaker, enters the Call on it.  After the
\* last descriptor it leaves the loop.
C10_OpenCircuitIsSkipped ==
    [][\A p \in Procs :
          ( /\ AllowRequest(p)
            /\ an[p].pc = "calling"
            /\ ~allowRequest(circuitBreakers[call[p].cb], now).allowed )
          => LET a == an[p] IN
             /\ fnCalls' = fnCalls
             /\ circuitBreakers' = circuitBreakers
             /\ IF a.idx < Len(a.view)
                THEN LET next == a.view[a.idx + 1].Name IN
                     /\ an'[p].attemptedModels = Append(a.attemptedModels, next)
                     /\ next \in DOMAIN circuitBreakers =>
                          /\ an'[p].pc = "calling"
                          /\ an'[p].idx = a.idx + 1
                          /\ an'[p].lastError = ErrCircuitOpen
                          /\ call'[p].pc = "allow"
                          /\ call'[p].cb = next
                ELSE /\ an'[p].pc = "failed"
                     /\ an'[p].lastError = ErrCircuitOpen
                     /\ an'[p].attemptedModels = a.attemptedModels]_vars

\* C10 witness: a request has skipped a descriptor whose breaker is OPEN and
\* has run no adapter for it, and is about to consult the next one
C10_Witness ==
    \E p \in Procs :
        /\ an[p].pc = "calling"
        /\ an[p].idx >= 2
        /\ an[p].lastError = ErrCircuitOpen
        /\ call[p].pc = "allow"
        /\ call[p].cb = an[p].view[an[p].idx].Name
        /\ circuitBreakers[an[p].view[an[p].idx - 1].Name].state = CircuitOpen
        /\ circuitBreakers[an[p].view[an[p].idx - 1].Name].totalRequests
             = fnCalls[an[p].view[an[p].idx - 1].Name]

\* the names of the descriptors of view v
Names(v) == {v[i].Name : i \in 1..Len(v)}

\* C11: a request goes past a descriptor only when the Call on it returned
\* an error; the first Call that succeeds ends the loop with that
\* descriptor's result, every descriptor before it having been attempted and
\* none after it; and the request then returns, with a nil error, the
\* verdict built from that result, endpoint set to the descriptor's name,
\* without another adapter call or any change to a breaker.
C11_FirstSuccessIsReturned ==
    [][\A p \in Procs :
          LET a == an[p] IN
          /\ (a.pc = "calling" /\ an'[p] # a) =>
                IF \E o \in Outcomes(p) : o.ok /\ RecordOutcome(p, o)
                THEN /\ an'[p].pc = "succeeded"
                     /\ an'[p].idx = a.idx
                     /\ an'[p].attemptedModels = a.attemptedModels
                     /\ \E o \in Outcomes(p) : o.ok /\ an'[p].result = o.result
                     /\ call'[p] = IdleCall
                ELSE /\ an'[p].pc # "succeeded"
                     /\ an'[p].pc # "panic" =>
                          /\ an'[p].lastError \in {ErrCircuitOpen, ErrAdapter}
                          /\ an'[p].idx = a.idx + 1
          /\ a.pc = "succeeded" =>
                /\ a.idx \in 1..Len(a.view)
                /\ a.attemptedModels = [i \in 1..a.idx |-> a.view[i].Name]
                /\ call[p] = IdleCall
                /\ an'[p] # a =>
                      /\ an'[p].pc = "done"
                      /\ an'[p].err = ErrNil
                      /\ an'[p].response.Endpoint = a.view[a.idx].Name
                      /\ an'[p].response.Confidence = a.result.Score
                      /\ circuitBreakers' = circuitBreakers
                      /\ fnCalls' = fnCalls
                      /\ refused' = refused]_vars

\* C11 witness: a request has returned the verdict of a descriptor, whose
\* breaker recorded the success, after the Call on a descriptor of higher
\* priority had run its adapter in vain
C11_Witness ==
    \E p \in Procs :
        /\ an[p].pc = "done"
        /\ an[p].err = ErrNil
        /\ an[p].response.Endpoint \in Breakers
        /\ circuitBreakers[an[p].response.Endpoint].successfulRequests > 0
        /\ enabledModels # <<>>
        /\ enabledModels[1].Name # an[p].response.Endpoint
        /\ enabledModels[1].Name \in Breakers
        /\ circuitBreakers[enabledModels[1].Name].failedRequests > warm

\* C27: when the adapter called for a descriptor returns an error, that
\* descriptor's breaker records one failure (failedRequests and
\* consecutiveFailures grow by 1, consecutiveSuccesses becomes 0) and no
\* other breaker changes; the request does not return the error: it goes on
\* to the next descriptor of its view or, after the last, leaves the loop.
C27_AdapterErrorIsOneFailure ==
    [][\A p \in Procs :
          LET a == an[p]
              b == call[p].cb
          IN  ( /\ a.pc = "calling"
                /\ \E o \in Outcomes(p) : ~o.ok /\ RecordOutcome(p, o) )
              => LET old == circuitBreakers[b]
                     new == circuitBreakers'[b]
                 IN  /\ b = a.view[a.idx].Name
                     /\ fnCalls'[b] = fnCalls[b] + 1
                     /\ new.failedRequests = old.failedRequests + 1
                     /\ new.consecutiveFailures = old.consecutiveFailures + 1
                     /\ new.consecutiveSuccesses = 0
                     /\ new.successfulRequests = old.successfulRequests
                     /\ new.totalRequests = old.totalRequests
                     /\ \A c \in Breakers \ {b} :
                            circuitBreakers'[c] = circuitBreakers[c]
                     /\ an'[p].pc # "done"
                     /\ IF a.idx < Len(a.view)
                        THEN LET next == a.view[a.idx + 1].Name IN
                             /\ an'[p].attemptedModels
                                  = Append(a.attemptedModels, next)
                             /\ next \in Breakers =>
                                  /\ an'[p].pc = "calling"
                                  /\ an'[p].idx = a.idx + 1
                                  /\ an'[p].lastError = ErrAdapter
                                  /\ call'[p].pc = "allow"
                                  /\ call'[p].cb = next
                        ELSE /\ an'[p].pc = "failed"
                             /\ an'[p].lastError = ErrAdapter]_vars

\* C27 witness: a request is at its third descriptor after the adapters of
\* the first, of an unsupported provider, and of the second, of a supported
\* one, returned errors that their breakers recorded
C27_Witness ==
    \E p \in Procs :
        /\ an[p].pc = "calling"
        /\ an[p].idx = 3
        /\ an[p].lastError = ErrAdapter
        /\ an[p].view[1].Provider = ProviderOpenRouter
        /\ an[p].view[2].Provider = ProviderGoogle
        /\ \A i \in 1..2 :
               /\ fnCalls[an[p].view[i].Name] = warm + 1
               /\ circuitBreakers[an[p].view[i].Name].failedRequests = warm + 1

\* C12: a request with nonempty text returns the degraded verdict together
\* with ErrAllModelsFailed exactly when it has left the loop with every
\* descriptor of the enabled view refused by its breaker or failed, and the
\* verdict then lists the names of all those descriptors in view order.
C12_DegradedIffAllFailed ==
    [][\A p \in Procs :
          LET a == an[p] IN
          /\ (a.pc = "failed" /\ an'[p] # a) =>
                /\ an'[p].pc = "done"
                /\ an'[p].err = ErrAllModelsFailed
                /\ an'[p].response =
                      handleAllModelsFailed([i \in 1..Len(a.view) |-> a.view[i].Name])
          /\ ( /\ a.pc # "done"
               /\ an'[p].pc = "done"
               /\ an'[p].text # ""
               /\ \/ an'[p].err = ErrAllModelsFailed
                  \/ an'[p].response.Endpoint = "fallback_failed" )
              => a.pc = "failed"]_vars

\* the step in which the request of goroutine p returns a verdict
Returns(p) == an[p].pc # "done" /\ an'[p].pc = "done"

\* the names of the descriptors that are enabled in the model list ms
EnabledNames(ms) == {ms[i].Name : i \in {j \in 1..Len(ms) : ms[j].Enabled}}

\* C13: the endpoint of the verdict a request with nonempty text returns is
\* "fallback_failed" or the name of a descriptor that was enabled in the
\* registry when the request read the enabled view, which, the registry
\* not having been changed since, is the name of a descriptor enabled now.
C13_EndpointIsEnabledOrFallback ==
    [][\A p \in Procs :
          (Returns(p) /\ an'[p].text # "") =>
              LET endpoint == an'[p].response.Endpoint IN
              /\ endpoint \in EnabledNames(an[p].registered) \cup {"fallback_failed"}
              /\ endpoint \in Names(an[p].view) \cup {"fallback_failed"}
              /\ models = an[p].registered =>
                    endpoint \in Names(enabledModels) \cup {"fallback_failed"}]_vars

\* C13 witness: a request has returned the verdict of the descriptor that a
\* registry operation made the first of the enabled view
C13_Witness ==
    \E p \in Procs :
        /\ an[p].pc = "done"
        /\ an[p].text # ""
        /\ regOps > 0
        /\ enabledModels # <<>>
        /\ an[p].response.Endpoint = enabledModels[1].Name
        /\ an[p].response.Endpoint # getStartupModelConfigs[1].Name

\* the threshold in force for a request that carried threshold t
EffectiveThreshold(t) == IF t = 0 THEN DefaultConfidenceThreshold ELSE t

\* C14 as stated: every verdict returned, the empty-input verdict and the
\* degraded verdict included, has
\* is_malicious = (confidence >= effective threshold).
C14_MaliciousIffAtThreshold ==
    [][\A p \in Procs :
          (Returns(p) /\ an[p].pc \in {"succeeded", "failed"}) =>
              an'[p].response.IsMalicious
                  = (an'[p].response.Confidence
                         >= EffectiveThreshold(an[p].threshold))]_vars

\* C14 amended: a verdict built from a model's result has
\* is_malicious = (confidence >= effective threshold); the empty-input
\* verdict and the degraded verdict have is_malicious = FALSE whatever the
\* threshold.
C14_MaliciousIffAtThresholdOnSuccess ==
    [][\A p \in Procs :
          Returns(p) =>
              IF an[p].pc = "succeeded"
              THEN an'[p].response.IsMalicious
                       = (an'[p].response.Confidence
                              >= EffectiveThreshold(an[p].threshold))
              ELSE an'[p].response.IsMalicious = FALSE]_vars

\* C14 witness: a verdict that is malicious under the threshold its request
\* carried and would not be under the default one
C14_Witness ==
    \E p \in Procs :
        /\ an[p].pc = "done"
        /\ an[p].err = ErrNil
        /\ an[p].response.IsMalicious
        /\ an[p].response.Confidence < DefaultConfidenceThreshold

\* C15: the confidence of every verdict returned lies between 0 and 1
\* (100 hundredths).
C15_ConfidenceInUnitInterval ==
    \A p \in Procs :
        an[p].pc = "done" =>
            /\ 0 <= an[p].response.Confidence
            /\ an[p].response.Confidence <= 100

\* C16: a request with empty text returns at once, with a nil error, the
\* verdict with confidence 0, is_malicious FALSE, no threats and endpoint
\* "none"; no Call is entered and no breaker, counter or metric changes.
C16_EmptyInputIsBenignAndInert ==
    [][\A p \in Procs :
          (AnalyzeStart(p) /\ an'[p].text = "") =>
              /\ an'[p].pc = "done"
              /\ an'[p].err = ErrNil
              /\ an'[p].response.Confidence = 0
              /\ an'[p].response.IsMalicious = FALSE
              /\ an'[p].response.ThreatTypes = <<>>
              /\ an'[p].response.Endpoint = "none"
              /\ call' = call
              /\ circuitBreakers' = circuitBreakers
              /\ fnCalls' = fnCalls
              /\ refused' = refused
              /\ metrics' = metrics]_vars

\* C16 witness: a request with empty text has returned while no breaker has
\* seen a Call since the pipeline was built and warmed up
C16_Witness ==
    \E p \in Procs :
        /\ an[p].pc = "done"
        /\ an[p].text = ""
        /\ an[p].response.Endpoint = "none"
        /\ started > 0
        /\ \A b \in Breakers : fnCalls[b] + refused[b] = warm
        /\ \E b \in Breakers : circuitBreakers[b].state = CircuitOpen

\* how often descriptor m occurs in the sequence v
Occurrences(v, m) == Cardinality({i \in 1..Len(v) : v[i] = m})

\* C17: at construction and after every registry operation the enabled view
\* holds exactly the descriptors of the model list whose Enabled flag is
\* set, each as often as the list holds it, in non-decreasing priority
\* order, and no disabled descriptor.
C17_ViewIsEnabledSorted ==
    /\ Len(enabledModels) = Len(SelectSeq(models, IsEnabled))
    /\ \A i \in 1..Len(models) :
           Occurrences(enabledModels, models[i])
               = IF models[i].Enabled THEN Occurrences(models, models[i]) ELSE 0
    /\ \A i \in 1..Len(enabledModels) : enabledModels[i].Enabled
    /\ \A i, j \in 1..Len(enabledModels) :
           i < j => enabledModels[i].Priority <= enabledModels[j].Priority

\* C17 witness: registry operations have left a disabled descriptor in the
\* model list and the enabled ones in another order than their priorities
C17_Witness ==
    /\ regOps > 1
    /\ \E i \in 1..Len(models) : ~models[i].Enabled
    /\ Len(enabledModels) >= 2
    /\ SelectSeq(models, IsEnabled) # enabledModels

\* C18: two descriptors of the enabled view that have the same priority
\* stand in the view in the order in which the model list holds them.
C18_StableOnTies ==
    \A i, j \in 1..Len(enabledModels) :
        (i < j /\ enabledModels[i].Priority = enabledModels[j].Priority)
            => PositionIn(models, enabledModels[i], 1)
                   < PositionIn(models, enabledModels[j], 1)

\* the positions of the enabled view whose descriptor has a breaker that is
\* not OPEN
NonOpen ==
    {i \in 1..Len(enabledModels) :
        /\ enabledModels[i].Name \in Breakers
        /\ circuitBreakers[enabledModels[i].Name].state # CircuitOpen}

\* C19: a health snapshot reports as models_available the number of enabled
\* models that have a breaker that is not OPEN and as total_models the number
\* of enabled models; its status is critical when the former is 0, healthy
\* when it equals the latter, degraded otherwise; and taking it changes no
\* breaker.
C19_HealthStatus ==
    [][HealthCheck =>
          /\ reply'.ModelsAvailable = Cardinality(NonOpen)
          /\ reply'.TotalModels = Len(enabledModels)
          /\ reply'.Status =
                IF Cardinality(NonOpen) = 0
                THEN "critical - all models unavailable"
                ELSE IF Cardinality(NonOpen) = Len(enabledModels)
                THEN "healthy"
                ELSE "degraded - some models unavailable"
          /\ circuitBreakers' = circuitBreakers]_vars

\* C19 witness: a snapshot taken while one enabled model's breaker was OPEN
\* and another's was not reports a degraded service
C19_Witness ==
    /\ reply.op = "health"
    /\ reply.Status = "degraded - some models unavailable"
    /\ reply.ModelsAvailable = Cardinality(NonOpen)
    /\ reply.ModelsAvailable > 0
    /\ \E i \in 1..Len(enabledModels) :
           /\ enabledModels[i].Name \in Breakers
           /\ circuitBreakers[enabledModels[i].Name].state = CircuitOpen

\* C20: a breaker reset for a name succeeds exactly when the name is that of
\* an enabled model of the registry, and then resets that model's breaker
\* and no other; for any other name it reports not-found and changes no
\* breaker.
C20_ResetIffEnabledModel ==
    [][\A n \in OpNames :
          ResetCircuitBreaker(n) =>
              IF n \in Names(enabledModels)
              THEN /\ reply'.err = ErrNil
                   /\ n \in Breakers =>
                        circuitBreakers' = [circuitBreakers EXCEPT ![n] = Reset(@)]
              ELSE /\ reply'.err = ErrNotFound
                   /\ circuitBreakers' = circuitBreakers]_vars

\* C28: a step changes at most one breaker, and a breaker changes only in a
\* step of a Call made on that breaker or in a reset of that breaker;
\* reading the statistics changes no breaker.
C28_BreakersAreIsolated ==
    [][/\ \A b \in Breakers :
             circuitBreakers'[b] # circuitBreakers[b] =>
                 /\ \/ \E p \in Procs :
                          /\ call[p].cb = b
                          /\ \/ AllowRequest(p)
                             \/ IncrementTotalRequests(p)
                             \/ RecordResult(p)
                    \/ ResetCircuitBreaker(b)
                 /\ \A c \in Breakers \ {b} :
                        circuitBreakers'[c] = circuitBreakers[c]
       /\ DOMAIN circuitBreakers' = DOMAIN circuitBreakers
       /\ GetCircuitBreakerStats => circuitBreakers' = circuitBreakers]_vars

\* C28 witness: the adapters of two models are running at once, called by
\* two requests, after a breaker was reset and another recorded a failure
C28_Witness ==
    \E p, q \in Procs :
        /\ call[p].pc = "fn"
        /\ call[q].pc = "fn"
        /\ call[p].cb # call[q].cb
        /\ reply.op = "reset"
        /\ reply.err = ErrNil
        /\ \E b \in Breakers : circuitBreakers[b].failedRequests > 0

\* C21: when the Call on a descriptor has not succeeded and the request's
\* context is done, the request tries no further descriptor: it leaves the
\* loop without consulting another breaker, and then returns the degraded
\* verdict.
C21_StopsWhenDeadlineExpired ==
    [][\A p \in Procs :
          /\ ( /\ an[p].pc = "calling"
               /\ an[p].ctxDone
               /\ an'[p] # an[p]
               /\ an'[p].pc # "succeeded" )
             => /\ an'[p].pc = "failed"
                /\ an'[p].attemptedModels = an[p].attemptedModels
                /\ call'[p] = IdleCall
          /\ (an[p].pc = "failed" /\ an[p].ctxDone /\ an'[p] # an[p])
             => /\ an'[p].pc = "done"
                /\ an'[p].response.Endpoint = "fallback_failed"]_vars

\* the top-1 result of the benign scenario: label safe, raw score 0.99
SafeReply == [label |-> "safe", score |-> 99]

\* the request of goroutine p got its result from the first descriptor of
\* its view, a classifier whose reply was SafeReply
FromSafeClassifier(p) ==
    /\ an[p].pc = "succeeded"
    /\ an[p].idx = 1
    /\ an[p].view[1].Provider = ProviderHuggingFace
    /\ an[p].result.analysis = callHuggingFaceClassification(SafeReply)

C29_ReaderSeesCompleteView ==
    [][\A p \in Procs :
          (AnalyzeStart(p) /\ Len(an'[p].text) # 0)
              => an'[p].view \in {refreshEnabledModels(refresh.before),
                                  refreshEnabledModels(models)}]_vars

\* the steps of refreshEnabledModels end in the view the operator computes
RefreshStepsComputeView ==
    refresh.pc = "idle" => enabledModels = refreshEnabledModels(models)

\* the candidates of a call of Detect, the initial result first
Candidates == {InitialBest} \cup {det.obtained[k] : k \in DOMAIN det.obtained}

\* candidate c came before candidate d
Earlier(c, d) == c.e < d.e \/ (c.e = d.e /\ c.t < d.t)

\* C30: the running best starts with score 0.5 and changes only when a
\* candidate's score is strictly higher; so its score is the maximum of 0.5
\* and the scores obtained, and among the candidates with that score its
\* threats and reason are those of the earliest (the initial text before
\* the decoded variants of an endpoint, an endpoint before the later ones).
C30_BestIsEarliestMaximum ==
    /\ [](det.pc # "idle" =>
            \E c \in Candidates :
                /\ \A d \in Candidates : d.Score <= c.Score
                /\ \A d \in Candidates : d.Score = c.Score /\ d # c => Earlier(c, d)
                /\ det.bestResult.Score = c.Score
                /\ det.bestResult.ThreatTypes = c.ThreatTypes
                /\ det.err = ErrNil => det.bestResult.Reason = c.Reason)
    /\ [][/\ DetectStart => det'.bestResult.Score = BaselineScore
          /\ det.pc # "idle" /\ det'.bestResult.Score # det.bestResult.Score
                => /\ det'.obtained # det.obtained
                   /\ det'.obtained[Len(det'.obtained)].Score > det.bestResult.Score
                   /\ det'.bestResult = det'.obtained[Len(det'.obtained)]]_vars

\* Detect has returned a verdict although a later candidate reached the same
\* score with other threats, once on a decoded variant and once on a later
\* endpoint
C30_Witness ==
    /\ det.pc = "returned"
    /\ det.err = ErrNil
    /\ det.bestResult.Score > BaselineScore
    /\ \E i, j \in DOMAIN det.obtained :
         /\ det.obtained[i].e < det.obtained[j].e
         /\ det.obtained[i].Score = det.bestResult.Score
         /\ det.obtained[j].Score = det.bestResult.Score
         /\ det.obtained[i].ThreatTypes # det.obtained[j].ThreatTypes
    /\ \E i, j \in DOMAIN det.obtained :
         /\ det.obtained[i].e = det.obtained[j].e
         /\ det.obtained[i].t = 1
         /\ det.obtained[j].t > 1
         /\ det.obtained[i].Score = det.obtained[j].Score
         /\ det.obtained[i].ThreatTypes # det.obtained[j].ThreatTypes

\* C31: as soon as a candidate's normalized score is 0.8 or more Detect
\* returns the running best, which is that candidate, without an error; no
\* text and no endpoint is called after that, also when the score came from
\* a decoded variant after the text itself scored low.
C31_EarlyExit ==
    /\ [](\A k \in DOMAIN det.obtained :
            det.obtained[k].Score >= 80
                => /\ k = Len(det.obtained)
                   /\ det.pc = "returned"
                   /\ det.err = ErrNil
                   /\ det.bestResult = det.obtained[k])
    /\ [][det.pc = "returned" => det' = det]_vars

\* the first endpoint scored the text low and its decoded variant at 0.8 or
\* more, and Detect has returned
C31_Witness ==
    /\ det.pc = "returned"
    /\ Len(det.obtained) = 2
    /\ det.obtained[1].e = 1 /\ det.obtained[1].t = 1
    /\ det.obtained[1].Score < BaselineScore
    /\ det.obtained[2].e = 1 /\ det.obtained[2].t = 2
    /\ det.obtained[2].Score >= 80
    /\ det.e = 1

\* C32: once every text has been tried on an endpoint and one of the calls
\* succeeded, Detect returns; callEndpoint is called on a later endpoint
\* only when every call on the endpoints before it failed.
C32_NoCallAfterWorkingEndpoint ==
    [][DetectCandidate => det.endpointSuccessCount = 0]_vars

\* C40: in every breaker state consecutiveFailures and consecutiveSuccesses
\* are at least 0 and at most one of the two is greater than 0.
C40_OneRunAtATime ==
    \A b \in DOMAIN circuitBreakers :
        /\ circuitBreakers[b].consecutiveFailures >= 0
        /\ circuitBreakers[b].consecutiveSuccesses >= 0
        /\ \/ circuitBreakers[b].consecutiveFailures = 0
           \/ circuitBreakers[b].consecutiveSuccesses = 0

\* a breaker that has recorded failures is on a run of successes
C40_Witness ==
    \E b \in DOMAIN circuitBreakers :
        /\ circuitBreakers[b].failedRequests > 0
        /\ circuitBreakers[b].consecutiveSuccesses > 0
        /\ circuitBreakers[b].state = CircuitHalfOpen

\* C38: the failure of a call that was admitted before the circuit opened
\* and is recorded while the circuit is OPEN leaves the backoff and
\* lastFailureTime as they are.
C38_OneEscalationPerOpenEpisode ==
    [][\A p \in Procs :
          (RecordResult(p) /\ circuitBreakers[call[p].cb].state = CircuitOpen)
              => /\ circuitBreakers'[call[p].cb].timeout
                        = circuitBreakers[call[p].cb].timeout
                 /\ circuitBreakers'[call[p].cb].lastFailureTime
                        = circuitBreakers[call[p].cb].lastFailureTime]_vars

\* goroutine p returns from Analyze in this step
Completes(p) == an'[p] # an[p] /\ an'[p].pc = "done"

\* C33: the metrics change in no step but the one critical section of a
\* request with nonempty text that returns, by RecordSuccess when it returns
\* a verdict and by RecordFailure when every model failed; a request with
\* empty text leaves them alone.  RequestsTotal = RequestsSuccessful +
\* RequestsFailed in every state, with requests running at once.
C33_MetricsOncePerRequest ==
    /\ [](metrics.RequestsTotal
              = metrics.RequestsSuccessful + metrics.RequestsFailed)
    /\ [][/\ \A p \in Procs :
               Completes(p) =>
                   metrics' = IF Len(an'[p].text) = 0 THEN metrics
                              ELSE IF an'[p].err = ErrNil
                              THEN RecordSuccess(metrics)
                              ELSE RecordFailure(metrics)
          /\ metrics' # metrics =>
               \E p \in Procs : Completes(p) /\ Len(an'[p].text) # 0]_vars

\* one request has returned the degraded verdict and been counted as failed
\* while another request is still trying models
C33_Witness ==
    \E p, q \in Procs :
        /\ an[p].pc = "done"
        /\ an[p].err = ErrAllModelsFailed
        /\ an[q].pc = "calling"
        /\ metrics.RequestsFailed = warm + 1

\* C34: the counters of a metrics response come from one state of the
\* metrics, so its requests_total is the sum of its requests_successful and
\* its requests_failed, and its success rate is the quotient of the same
\* requests_successful and requests_total.
C34_MetricsSnapshot ==
    (reader.op = "metrics" /\ reader.pc = "done") =>
        /\ reader.requests_total
              = reader.requests_successful + reader.requests_failed
        /\ reader.rateTotal # 0 =>
              /\ reader.rateTotal = reader.requests_total
              /\ reader.rateSuccessful = reader.requests_successful

\* C35: GetStats and the writers of a breaker never wait on each other: no
\* state has the reader waiting in RLock() behind a goroutine that waits in
\* Lock() for the read lock the reader itself holds.
C35_StatsReadNeverDeadlocks ==
    ~(/\ reader.op = "stats"
      /\ reader.pc = "getState"
      /\ reader.readers > 0
      /\ WriterWaiting)

\* C36: whatever the registry operations since construction, every
\* descriptor of the enabled view has a breaker in the pipeline's map, and
\* no request ends in the nil dereference that a missing breaker causes.
C36_EveryEnabledModelHasBreaker ==
    /\ \A i \in DOMAIN enabledModels :
          enabledModels[i].Name \in DOMAIN circuitBreakers
    /\ \A p \in Procs :
          ~(/\ an[p].pc = "panic"
            /\ an[p].attemptedModels # <<>>
            /\ an[p].attemptedModels[Len(an[p].attemptedModels)]
                  \notin DOMAIN circuitBreakers)

\* C37: no request with nonempty text ends in the dereference of a last
\* error that was never set, which is what a request that tried no
\* descriptor at all would do after the loop.
C37_NoFailureOnUnsetLastError ==
    \A p \in Procs :
        ~(an[p].pc = "panic" /\ an[p].attemptedModels = <<>>)

\* C39: an OPEN breaker recovers.  With the clock running, Calls arriving
\* and fn succeeding from some point on, an OPEN breaker is HALF_OPEN at
\* some later moment and CLOSED at some later moment.
C39_OpenRecovers ==
    /\ (circuitBreakers[CBName].state = CircuitOpen)
          ~> (circuitBreakers[CBName].state = CircuitHalfOpen)
    /\ (circuitBreakers[CBName].state = CircuitOpen)
          ~> (circuitBreakers[CBName].state = CircuitClosed)

====
